---- MODULE Spec2Model ----
(***************************************************************************)
(* The navigation and viewport coordinator of BookReader                    *)
(* (src/src/BookReader.js): display mode, first index, zoom level,          *)
(* fullscreen flag, the events each operation emits, and the deferred       *)
(* continuations of the fullscreen operations.                              *)
(*                                                                          *)
(* Every operation of the viewer is a pure operator over a record of the    *)
(* viewer's fields (V), so that a handler that calls other handlers is the  *)
(* composition of their operators; an action of the state machine is one    *)
(* top-level call of a handler, or one deferred continuation.               *)
(***************************************************************************)
EXTENDS Integers, Sequences, FiniteSets, TLC

\* ---------------------------------------------------------------- bounds
\* pages of a book: of the mode and fullscreen machine, and of navigation
MaxLeafs == 2
MaxNavLeafs == 3
\* fullscreen continuations that may wait at once
MaxTasks == 1
\* the longest list of reduction factors, and the largest reduce value in one
MaxFactors == 3
MaxReduce == 4
\* the most key=value parts of a query string
MaxPairs == 2
\* the most callbacks registered on the document at once
MaxListeners == 3
\* the most plugin names in BookReader.PLUGINS
MaxPlugins == 2

\* ------------------------------------------------------- program constants
constMode1up == 1
constMode2up == 2
constModeThumb == 3
\* JavaScript's undefined and null, as numbers no index, mode or zoom level uses
JSUndefined == -1
JSNull == -2
\* a number that is none of the three mode constants
OtherNumber == 4
\* this.reduce at construction
InitialReduce == 8
\* options.onePageMinBreakpoint
onePageMinBreakpoint == 800

Modes == {constMode1up, constMode2up, constModeThumb}

\* ------------------------------------------------------------------ state
VARIABLES
    numLeafs,               \* book.getNumLeafs()
    viewable,               \* viewable[i]: book.getPage(i).isViewable
    phase,                  \* "registered" (no viewer yet), "constructed", "ready" (init
                            \* returned), "failed" (init threw)
    mode,                   \* this.mode
    prevReadMode,           \* this.prevReadMode
    reduce,                 \* this.reduce
    pageScale,              \* this.pageScale
    firstIndex,             \* this.firstIndex
    suppressFragmentChange, \* this.suppressFragmentChange
    initComplete,           \* this.init.initComplete
    isFullscreenActive,     \* this.isFullscreenActive
    displayedIndices,       \* this.displayedIndices, as a set
    initialSearchTerm,      \* plugins.search.options.initialSearchTerm is set
    goToFirstResult,        \* plugins.search.options.goToFirstResult, once initParams set it
    probe,                  \* a function under study: its name, its input, its result
    registry,               \* BookReader.PLUGINS: the class registered under each name
    plugins,                \* this.plugins: the instances, in the order of Object.entries
    optionsPlugins,         \* this.options.plugins
    lifecycle,              \* the plugin calls and the steps of init() around them, in order
    listeners,              \* the callbacks bound on the document, in order of binding
    dispatched,             \* what the last trigger dispatched and invoked, in order
    fullscreenCloseHandler, \* this._fullscreenCloseHandler: the Escape handler last made
    shell,                  \* the <ia-bookreader> element around the viewer
    tasks,                  \* continuations waiting behind an await, oldest first
    call,                   \* the last top-level call: operation and arguments
    error,                  \* what the last call threw, "none" if it returned
    log                     \* what the last call emitted and asked of the renderers, in order

vars == <<numLeafs, viewable, phase, mode, prevReadMode, reduce, pageScale, firstIndex,
          suppressFragmentChange, initComplete, isFullscreenActive, displayedIndices,
          initialSearchTerm, goToFirstResult, probe, registry, plugins, optionsPlugins,
          lifecycle, listeners, dispatched, fullscreenCloseHandler, shell, tasks, call,
          error, log>>

\* ------------------------------------------------ the viewer as one record
V == [numLeafs |-> numLeafs, viewable |-> viewable, mode |-> mode,
      prevReadMode |-> prevReadMode, reduce |-> reduce, pageScale |-> pageScale,
      firstIndex |-> firstIndex, suppressFragmentChange |-> suppressFragmentChange,
      initComplete |-> initComplete, isFullscreenActive |-> isFullscreenActive,
      displayedIndices |-> displayedIndices, initialSearchTerm |-> initialSearchTerm,
      goToFirstResult |-> goToFirstResult, probe |-> probe, plugins |-> plugins,
      lifecycle |-> lifecycle, tasks |-> tasks, error |-> "none", log |-> <<>>]

CommitFields(s) ==
    /\ mode' = s.mode
    /\ prevReadMode' = s.prevReadMode
    /\ reduce' = s.reduce
    /\ pageScale' = s.pageScale
    /\ firstIndex' = s.firstIndex
    /\ suppressFragmentChange' = s.suppressFragmentChange
    /\ initComplete' = s.initComplete
    /\ isFullscreenActive' = s.isFullscreenActive
    /\ displayedIndices' = s.displayedIndices
    /\ initialSearchTerm' = s.initialSearchTerm
    /\ goToFirstResult' = s.goToFirstResult
    /\ probe' = s.probe
    /\ tasks' = s.tasks
    /\ error' = s.error
    /\ log' = s.log
    /\ lifecycle' = s.lifecycle
    /\ UNCHANGED <<numLeafs, viewable, registry, plugins, optionsPlugins, dispatched>>

\* a call that leaves the document's listeners and the shell alone
Commit(s) ==
    /\ CommitFields(s)
    /\ UNCHANGED <<listeners, fullscreenCloseHandler, shell>>

\* ----------------------------------------------------------------- events
Ev(name, arg) == [ev |-> name, arg |-> arg]
EvStop == Ev("stop", 0)
EvFragmentChange == Ev("fragmentChange", 0)
EvPageChanged == Ev("pageChanged", 0)
EvUserAction == Ev("userAction", 0)
EvResize == Ev("resize", 0)
EvPostInit == Ev("PostInit", 0)
EvFullscreenToggled == Ev("fullscreenToggled", 0)

\* BookReader.eventNames[mode + 'PageViewSelected']: undefined for a mode
\* that is none of the three, and trigger(undefined) dispatches "BookReader:undefined"
EvPageViewSelected(m) ==
    IF m \in Modes THEN Ev("PageViewSelected", m) ELSE Ev("undefined", m)

\* calls into the per-mode renderers, recorded in the same log
CallPrepare(m) == Ev("prepare", m)
CallUnprepare(m) == Ev("unprepare", m)
CallJump(i) == Ev("renderer.jumpToIndex", i)
CallResizePageView(m) == Ev("resizePageView", m)
CallDrawLeafs == Ev("drawLeafs", 0)
\* mode2UpLit.flipAnimation('next' / 'prev'): 1 for next, -1 for prev
CallFlipAnimation(direction) == Ev("flipAnimation", direction)
\* jumpToIndex as next() and prev() call it, with the index they ask for
CallJumpToIndex(i) == Ev("jumpToIndex", i)

Throw(s, what) == [s EXCEPT !.error = what]

\* the one value of a one-element set: One({e : x \in {v}}) is e with x bound to
\* the value of v, worked out once
One(S) == CHOOSE x \in S : TRUE

\* trigger(name): every listener runs at once and is handed the viewer, so it sees
\* the fields as they are at this point of the call; the log keeps what it can read
trigger(s0, e) ==
    One({[s EXCEPT !.log = Append(@, [ev |-> e.ev, arg |-> e.arg, mode |-> s.mode,
                                      firstIndex |-> s.firstIndex,
                                      fullscreen |-> s.isFullscreenActive])] : s \in {s0}})

\* the names and arguments of a log, without what the listeners could read
Names(l) == [k \in 1..Len(l) |-> Ev(l[k].ev, l[k].arg)]

\* ------------------------------------------------------------ book contract
InBook(s, i) == i \in 0..(s.numLeafs - 1)

\* page.unviewablesStart: the first index of the unviewable run that holds i
RECURSIVE unviewablesStart(_, _)
unviewablesStart(s, i) ==
    IF i > 0 /\ ~s.viewable[i - 1] THEN unviewablesStart(s, i - 1) ELSE i

\* a page that continues an unviewable run (not viewable, and not the run's start)
isConsecutiveUnviewable(s, i) == ~s.viewable[i] /\ unviewablesStart(s, i) # i

\* page.findNext({combineConsecutiveUnviewables: true})?.index: the next index that
\* does not continue an unviewable run, JSUndefined when the book ends first
findNext(s, i) ==
    LET later == {j \in (i + 1)..(s.numLeafs - 1) : ~isConsecutiveUnviewable(s, j)}
    IN  IF later = {} THEN JSUndefined
        ELSE CHOOSE j \in later : \A k \in later : j <= k

\* --------------------------------------------------------- reduction factors
\* options.reductionFactors, ordered by reduce
reductionFactors ==
    << [reduce |-> 1, autofit |-> "none"],
       [reduce |-> 2, autofit |-> "none"],
       [reduce |-> 4, autofit |-> "none"] >>

Abs(x) == IF x < 0 THEN 0 - x ELSE x

\* a scan in which a factor as near as the best so far replaces it: the later wins a tie
RECURSIVE quantizeScanLastWins(_, _, _, _, _)
quantizeScanLastWins(r, factors, i, quantized, distance) ==
    IF i > Len(factors) THEN quantized
    ELSE LET newDistance == Abs(r - factors[i].reduce)
         IN  IF newDistance <= distance
             THEN quantizeScanLastWins(r, factors, i + 1, factors[i].reduce, newDistance)
             ELSE quantizeScanLastWins(r, factors, i + 1, quantized, distance)

\* the loop of quantizeReduce from position i on, holding the best so far
RECURSIVE quantizeScan(_, _, _, _, _)
quantizeScan(r, factors, i, quantized, distance) ==
    IF i > Len(factors) THEN quantized
    ELSE LET newDistance == Abs(r - factors[i].reduce)
         IN  IF newDistance < distance
             THEN quantizeScan(r, factors, i + 1, factors[i].reduce, newDistance)
             ELSE quantizeScan(r, factors, i + 1, quantized, distance)

quantizeReduce(r, factors) ==
    quantizeScan(r, factors, 2, factors[1].reduce, Abs(r - factors[1].reduce))

\* a zoom-in scan that also accepts a factor equal to the current one
RECURSIVE nextReduceInOrEqual(_, _, _, _)
nextReduceInOrEqual(currentReduce, factors, i, newReduceIndex) ==
    IF i > Len(factors) THEN newReduceIndex
    ELSE nextReduceInOrEqual(currentReduce, factors, i + 1,
                             IF factors[i].reduce <= currentReduce THEN i ELSE newReduceIndex)

\* nextReduce, direction 'in': the loop from position i up (positions count from 1)
RECURSIVE nextReduceIn(_, _, _, _)
nextReduceIn(currentReduce, factors, i, newReduceIndex) ==
    IF i > Len(factors) THEN newReduceIndex
    ELSE nextReduceIn(currentReduce, factors, i + 1,
                      IF factors[i].reduce < currentReduce THEN i ELSE newReduceIndex)

\* a zoom-out scan that also accepts a factor equal to the current one
RECURSIVE nextReduceOutOrEqual(_, _, _, _)
nextReduceOutOrEqual(currentReduce, factors, i, newReduceIndex) ==
    IF i < 1 THEN newReduceIndex
    ELSE nextReduceOutOrEqual(currentReduce, factors, i - 1,
                              IF factors[i].reduce >= currentReduce THEN i ELSE newReduceIndex)

\* nextReduce, direction 'out': the loop from position i down
RECURSIVE nextReduceOut(_, _, _, _)
nextReduceOut(currentReduce, factors, i, newReduceIndex) ==
    IF i < 1 THEN newReduceIndex
    ELSE nextReduceOut(currentReduce, factors, i - 1,
                       IF factors[i].reduce > currentReduce THEN i ELSE newReduceIndex)

\* reductionFactors.find(rf => rf.autofit == autofit): its position, 0 if there is none
findAutofit(factors, autofit) ==
    LET at == {i \in 1..Len(factors) : factors[i].autofit = autofit}
    IN  IF at = {} THEN 0 ELSE CHOOSE i \in at : \A j \in at : i <= j

\* nextReduce, direction 'auto' without an 'auto' factor: the loop over the height and
\* width factors from position i on; choice is a position, 0 for null
RECURSIVE nextReduceAuto(_, _, _)
nextReduceAuto(factors, i, choice) ==
    IF i > Len(factors) THEN choice
    ELSE nextReduceAuto(factors, i + 1,
                        IF /\ factors[i].autofit \in {"height", "width"}
                           /\ (choice = 0 \/ factors[choice].reduce < factors[i].reduce)
                        THEN i ELSE choice)

\* the position in factors of the factor nextReduce returns
nextReduceIndex(currentReduce, direction, factors) ==
    IF direction = "in" THEN nextReduceIn(currentReduce, factors, 2, 1)
    ELSE IF direction = "out"
    THEN nextReduceOut(currentReduce, factors, Len(factors), Len(factors))
    ELSE IF direction = "auto"
    THEN IF findAutofit(factors, "auto") # 0 THEN findAutofit(factors, "auto")
         ELSE IF nextReduceAuto(factors, 1, 0) # 0 THEN nextReduceAuto(factors, 1, 0)
         ELSE 1
    ELSE IF direction \in {"height", "width"} /\ findAutofit(factors, direction) # 0
    THEN findAutofit(factors, direction)
    ELSE 1

nextReduce(currentReduce, direction, factors) ==
    factors[nextReduceIndex(currentReduce, direction, factors)]

\* -------------------------------------------------------------- mode tokens
\* what a caller may hand to switchMode: a number, a string, or null/undefined
Num(n) == [kind |-> "num", n |-> n, s |-> ""]
Str(w) == [kind |-> "str", n |-> 0, s |-> w]
Nil == [kind |-> "nil", n |-> 0, s |-> ""]

ModeTokens ==
    {Num(constMode1up), Num(constMode2up), Num(constModeThumb),
     Num(0), Num(OtherNumber),
     Str("1up"), Str("2up"), Str("thumb"), Str("bogus"), Nil}

\* the first lines of switchMode: a string is looked up, anything else is kept
resolveMode(tok) ==
    IF tok.kind = "str"
    THEN CASE tok.s = "1up" -> constMode1up
           [] tok.s = "2up" -> constMode2up
           [] tok.s = "thumb" -> constModeThumb
           [] OTHER -> JSUndefined
    ELSE IF tok.kind = "nil" THEN JSNull ELSE tok.n

\* !mode
isFalsyMode(m) == m = JSUndefined \/ m = JSNull \/ m = 0

canSwitchToMode(s, m) ==
    ~((m = constMode2up \/ m = constModeThumb) /\ s.numLeafs < 2)

getPrevReadMode(s, m) ==
    IF m = constMode1up \/ m = constMode2up THEN m
    ELSE IF s.prevReadMode = JSNull THEN constMode1up
    ELSE JSUndefined

\* this.activeMode is undefined unless this.mode is one of the three
hasActiveMode(s) == s.mode \in Modes

\* `if (this.pageScale !== this.reduce) this.reduce = this.pageScale`
restoreScale(s0) ==
    One({IF s.pageScale # s.reduce THEN [s EXCEPT !.reduce = s.pageScale] ELSE s : s \in {s0}})

\* a prepare() step in which Thumbnail keeps the restored scale as it is
prepareModeWithoutQuantize(s0, m) ==
    One({IF m = constMode1up THEN trigger(s, CallPrepare(constMode1up))
         ELSE IF m = constModeThumb THEN trigger(s, CallPrepare(constModeThumb))
         ELSE trigger(s, CallPrepare(constMode2up)) : s \in {s0}})

\* the prepare() of the new mode's renderer; Thumbnail quantizes reduce first, and
\* whatever is neither OnePage nor Thumbnail is handed to the two-page renderer
prepareMode(s0, m) ==
    One({IF m = constMode1up THEN trigger(s, CallPrepare(constMode1up))
         ELSE IF m = constModeThumb
         THEN trigger([s EXCEPT !.reduce = quantizeReduce(s.reduce, reductionFactors)],
                      CallPrepare(constModeThumb))
         ELSE trigger(s, CallPrepare(constMode2up)) : s \in {s0}})

\* `if (!(this.suppressFragmentChange || suppressFragmentChange)) trigger(fragmentChange)`
fragmentChangeUnless(s0, suppress) ==
    One({IF ~(s.suppressFragmentChange \/ suppress) THEN trigger(s, EvFragmentChange)
         ELSE s : s \in {s0}})

\* the part of switchMode after `this.mode = mode`
switchModePrepare(s0, m, suppress) ==
    trigger(fragmentChangeUnless(prepareMode(restoreScale(s0), m), suppress),
            EvPageViewSelected(m))

\* `this.prevReadMode = this.getPrevReadMode(this.mode)`
recordPrevReadMode(s0) ==
    One({[s EXCEPT !.prevReadMode = getPrevReadMode(s, s.mode)] : s \in {s0}})

\* `if (this.mode != mode) this.activeMode.unprepare?.()`
leaveMode(s0, m) ==
    One({IF s.mode = m THEN s
         ELSE IF ~hasActiveMode(s) THEN Throw(s, "TypeError")
         ELSE trigger(s, CallUnprepare(s.mode)) : s \in {s0}})

\* the part of switchMode after the checks
switchModeApply(s0, m, suppress) ==
    One({IF s.error # "none" THEN s
         ELSE switchModePrepare([s EXCEPT !.mode = m], m, suppress) :
         s \in {leaveMode(recordPrevReadMode(trigger(s0, EvStop)), m)}})

\* switchMode without `if (mode === this.mode) return`
switchModeEvenIfSame(s0, tok, suppress) ==
    One({IF s.error # "none" THEN s
         ELSE IF isFalsyMode(m) THEN Throw(s, "InvalidMode")
         ELSE IF s.initComplete /\ ~canSwitchToMode(s, m) THEN s
         ELSE switchModeApply(s, m, suppress) : s \in {s0}, m \in {resolveMode(tok)}})

switchMode(s0, tok, suppress) ==
    One({IF s.error # "none" THEN s
         ELSE IF isFalsyMode(m) THEN Throw(s, "InvalidMode")
         ELSE IF s.initComplete /\ (m = s.mode \/ ~canSwitchToMode(s, m)) THEN s
         ELSE switchModeApply(s, m, suppress) : s \in {s0}, m \in {resolveMode(tok)}})

\* ------------------------------------------------------------- navigation
clamp(x, lo, hi) == IF x < lo THEN lo ELSE IF x > hi THEN hi ELSE x

\* currentIndex() where the mode is one of the three (it throws otherwise)
currentIndex(s) ==
    IF s.mode = constMode1up \/ s.mode = constModeThumb THEN s.firstIndex
    ELSE clamp(s.firstIndex, 0, s.numLeafs - 1)

\* the end of a search-driven suppression, in updateFirstIndex
clearSearchSuppression(s0, suppress) ==
    One({IF s.initialSearchTerm /\ ~suppress
         THEN [s EXCEPT !.suppressFragmentChange = FALSE] ELSE s : s \in {s0}})

\* updateFirstIndex without `if (this.firstIndex === index) return`
updateFirstIndexEvenIfSame(s0, index, suppress) ==
    One({IF s.error # "none" THEN s
         ELSE trigger(trigger(clearSearchSuppression(
                                  fragmentChangeUnless([s EXCEPT !.firstIndex = index],
                                                       suppress),
                                  suppress),
                              EvPageChanged),
                      EvUserAction) : s \in {s0}})

\* an updateFirstIndex that assigns firstIndex after its events, not before
updateFirstIndexLate(s0, index, suppress) ==
    One({IF s.error # "none" \/ s.firstIndex = index THEN s
         ELSE [trigger(trigger(clearSearchSuppression(fragmentChangeUnless(s, suppress),
                                                      suppress),
                               EvPageChanged),
                       EvUserAction) EXCEPT !.firstIndex = index] : s \in {s0}})

updateFirstIndex(s0, index, suppress) ==
    One({IF s.error # "none" \/ s.firstIndex = index THEN s
         ELSE trigger(trigger(clearSearchSuppression(
                                  fragmentChangeUnless([s EXCEPT !.firstIndex = index],
                                                       suppress),
                                  suppress),
                              EvPageChanged),
                      EvUserAction) : s \in {s0}})

\* activeMode.jumpToIndex(index): the renderer shows the page and reports the
\* new position through updateFirstIndex
rendererJumpToIndex(s0, index) ==
    updateFirstIndex([trigger(s0, CallJump(index)) EXCEPT !.displayedIndices = {index}],
                     index, FALSE)

isIndexDisplayed(s, index) == index \in s.displayedIndices

\* newIndex with the two arms of its conditional exchanged
redirectIndexExchanged(s, index) ==
    LET alreadyInPreview == isIndexDisplayed(s, unviewablesStart(s, index))
    IN  IF alreadyInPreview THEN unviewablesStart(s, index) ELSE findNext(s, index)

\* newIndex of jumpToIndex, for a page inside an unviewable run
redirectIndexBack(s, index) ==
    IF isIndexDisplayed(s, unviewablesStart(s, index)) THEN findNext(s, index) ELSE index - 1

redirectIndex(s, index) ==
    LET alreadyInPreview == isIndexDisplayed(s, unviewablesStart(s, index))
    IN  IF alreadyInPreview THEN findNext(s, index) ELSE unviewablesStart(s, index)

\* jumpToIndex without the test of newIndex
redirectAlways(newIndex) == TRUE

\* typeof newIndex !== 'undefined'
redirectExists(newIndex) == newIndex # JSUndefined

\* the else branch of jumpToIndex without its stop
jumpDirectWithoutStop(s0, index) ==
    One({IF ~hasActiveMode(s) THEN Throw(s, "TypeError")
         ELSE rendererJumpToIndex(s, index) : s \in {s0}})

\* the else branch of jumpToIndex: stop, then the active mode's renderer
jumpDirect(s0, index) ==
    One({IF ~hasActiveMode(s) THEN Throw(s, "TypeError")
         ELSE rendererJumpToIndex(s, index) : s \in {trigger(s0, EvStop)}})

\* book.getPage(index) has no page to give outside the book, and reading
\* page.isViewable throws
RECURSIVE jumpToIndex(_, _)
jumpToIndex(s0, index) ==
    One({IF s.error # "none" THEN s
         ELSE IF ~InBook(s, index) THEN Throw(s, "TypeError")
         ELSE IF ~s.viewable[index] /\ unviewablesStart(s, index) # index
         THEN IF redirectExists(redirectIndex(s, index))
              THEN jumpToIndex(s, redirectIndex(s, index))
              ELSE s
         ELSE jumpDirect(s, index) : s \in {s0}})

\* the two-page branch of next() and prev()
flip(s0, triggerStop, direction) ==
    One({trigger(s, CallFlipAnimation(direction)) :
         s \in {IF triggerStop THEN trigger(s0, EvStop) ELSE s0}})

next(s0, triggerStop) ==
    One({IF s.mode = constMode2up THEN flip(s, triggerStop, 1)
         ELSE IF s.firstIndex < s.numLeafs - 1
         THEN jumpToIndex(trigger(s, CallJumpToIndex(s.firstIndex + 1)), s.firstIndex + 1)
         ELSE s : s \in {s0}})

prev(s0, triggerStop) ==
    One({IF s.firstIndex < 1 THEN s
         ELSE IF s.mode = constMode2up THEN flip(s, triggerStop, -1)
         ELSE jumpToIndex(trigger(s, CallJumpToIndex(s.firstIndex - 1)), s.firstIndex - 1) :
         s \in {s0}})

\* --------------------------------------------------------------- fragments
\* A fragment string is its "/"-separated segments (after a leading "#", if any).
\* A segment is a word, a string of digits, or "n" followed by digits.
Word(w) == [kind |-> "word", w |-> w, n |-> 0]
Digits(n) == [kind |-> "digits", w |-> "", n |-> n]
NPage(n) == [kind |-> "n", w |-> "", n |-> n]
NoSeg == [kind |-> "undefined", w |-> "", n |-> 0]

Fragment(hash, segs) == [hash |-> hash, segs |-> segs]
EmptyFragment == Fragment(FALSE, <<>>)

\* urlHash[key]: the value that follows the last occurrence of key at a key position
urlHashValue(segs, key) ==
    LET at == {i \in 1..Len(segs) : i % 2 = 1 /\ segs[i] = Word(key)}
    IN  IF at = {} THEN NoSeg
        ELSE LET i == CHOOSE j \in at : \A k \in at : k <= j
             IN  IF i + 1 <= Len(segs) THEN segs[i + 1] ELSE NoSeg

\* encodeURIComponent and decodeURIComponent, on the segments of the model: a blank
\* is written %20, every other character used here is kept
encodeURIComponent(seg) == IF seg = Word("a b") THEN Word("a%20b") ELSE seg
decodeURIComponent(seg) == IF seg = Word("a%20b") THEN Word("a b") ELSE seg

\* utils.encodeURIComponentPlus / decodeURIComponentPlus: a blank is written "+"
encodeURIComponentPlus(seg) ==
    IF encodeURIComponent(seg) = Word("a%20b") THEN Word("a+b") ELSE encodeURIComponent(seg)
decodeURIComponentPlus(seg) ==
    IF seg = Word("a+b") THEN Word("a b") ELSE decodeURIComponent(seg)

NoParams ==
    [index |-> JSUndefined, page |-> NoSeg, mode |-> JSUndefined, search |-> NoSeg,
     theme |-> NoSeg, init |-> FALSE, pageFound |-> FALSE, fragmentChange |-> FALSE]

\* Object.keys(params).length, for the keys a fragment can set
hasKeys(p) ==
    \/ p.index # JSUndefined
    \/ p.page # NoSeg
    \/ p.mode # JSUndefined
    \/ p.search # NoSeg
    \/ p.theme # NoSeg

\* a reading of the legacy form that takes the digits before the first "/"
oldStyleLeafNumPrefix(fragment) ==
    IF Len(fragment.segs) >= 1 /\ fragment.segs[1].kind = "digits"
    THEN fragment.segs[1].n ELSE JSUndefined

\* parseInt(/^\d+$/.exec(fragment)) once a leading "#" is dropped; JSUndefined for NaN
oldStyleLeafNum(fragment) ==
    IF Len(fragment.segs) = 1 /\ fragment.segs[1].kind = "digits"
    THEN fragment.segs[1].n ELSE JSUndefined

paramsFromFragment(fragment) ==
    LET segs == fragment.segs
        modeSeg == urlHashValue(segs, "mode")
    IN  IF oldStyleLeafNum(fragment) # JSUndefined
        THEN [NoParams EXCEPT !.index = oldStyleLeafNum(fragment)]
        ELSE [NoParams EXCEPT
                !.mode = IF modeSeg = Word("1up") THEN constMode1up
                         ELSE IF modeSeg = Word("2up") THEN constMode2up
                         ELSE IF modeSeg = Word("thumb") THEN constModeThumb
                         ELSE JSUndefined,
                !.page = decodeURIComponent(urlHashValue(segs, "page")),
                !.search = decodeURIComponentPlus(urlHashValue(segs, "search")),
                !.theme = urlHashValue(segs, "theme")]

\* book.parsePageString: "n<k>" is index k; a page number k is the page of a book
\* numbered from 1; anything else is not found
parsePageString(s, page) ==
    IF page.kind = "n" THEN page.n
    ELSE IF page.kind = "digits" /\ page.n \in 1..s.numLeafs THEN page.n - 1
    ELSE JSUndefined

\* a merge that keeps an index already present: the earlier source would win
jqExtendKeepIndex(params, newParams) ==
    [params EXCEPT
        !.index = IF @ = JSUndefined THEN newParams.index ELSE @,
        !.page = IF newParams.page # NoSeg THEN newParams.page ELSE @,
        !.mode = IF newParams.mode # JSUndefined THEN newParams.mode ELSE @,
        !.search = IF newParams.search # NoSeg THEN newParams.search ELSE @,
        !.theme = IF newParams.theme # NoSeg THEN newParams.theme ELSE @]

\* $.extend(params, newParams): the defined fields of newParams overwrite
jqExtend(params, newParams) ==
    [params EXCEPT
        !.index = IF newParams.index # JSUndefined THEN newParams.index ELSE @,
        !.page = IF newParams.page # NoSeg THEN newParams.page ELSE @,
        !.mode = IF newParams.mode # JSUndefined THEN newParams.mode ELSE @,
        !.search = IF newParams.search # NoSeg THEN newParams.search ELSE @,
        !.theme = IF newParams.theme # NoSeg THEN newParams.theme ELSE @]

\* an extendParams that resolves the page but forgets to delete it
extendParamsKeepPage(s, params, newParams) ==
    LET pageIndex == parsePageString(s, newParams.page)
    IN  jqExtend(params,
                 IF newParams.page # NoSeg /\ pageIndex # JSUndefined
                 THEN [newParams EXCEPT !.index = pageIndex]
                 ELSE newParams)

extendParams(s, params, newParams) ==
    LET pageIndex == parsePageString(s, newParams.page)
        modifiedNewParams ==
            IF newParams.page # NoSeg
            THEN [newParams EXCEPT
                    !.index = IF pageIndex # JSUndefined THEN pageIndex ELSE @,
                    !.page = NoSeg]
            ELSE newParams
    IN  jqExtend(params, modifiedNewParams)

\* what a call hands back: a value, or an exception
Returned(v) == [threw |-> FALSE, value |-> v]
Threw == [threw |-> TRUE, value |-> <<>>]

\* a page part that writes the index as a bare number
pageFragmentsBareIndex(params) ==
    IF params.page # NoSeg THEN <<Word("page"), encodeURIComponent(params.page)>>
    ELSE IF params.index # JSUndefined THEN <<Word("page"), Digits(params.index)>>
    ELSE <<>>

\* a page part in which the index is looked at before the page
pageFragmentsIndexFirst(params) ==
    IF params.index # JSUndefined THEN <<Word("page"), NPage(params.index)>>
    ELSE IF params.page # NoSeg THEN <<Word("page"), encodeURIComponent(params.page)>>
    ELSE <<>>

\* fragmentFromParams: what it pushes for page and index
pageFragments(params) ==
    IF params.page # NoSeg THEN <<Word("page"), encodeURIComponent(params.page)>>
    ELSE IF params.index # JSUndefined THEN <<Word("page"), NPage(params.index)>>
    ELSE <<>>

\* fragmentFromParams: what it pushes for a mode it knows
modeFragments(params) ==
    IF params.mode = JSUndefined THEN <<>>
    ELSE IF params.mode = constMode1up THEN <<Word("mode"), Word("1up")>>
    ELSE IF params.mode = constMode2up THEN <<Word("mode"), Word("2up")>>
    ELSE <<Word("mode"), Word("thumb")>>

\* fragmentFromParams: what it pushes for the search term (an empty term is falsy)
searchFragments(params, urlMode) ==
    IF params.search # NoSeg /\ params.search # Word("") /\ urlMode = "hash"
    THEN <<Word("search"), encodeURIComponentPlus(params.search)>>
    ELSE <<>>

\* the fragments joined by "/", or the exception for a mode that is none of the three
fragmentFromParams(params, urlMode) ==
    IF params.mode # JSUndefined /\ params.mode \notin Modes THEN Threw
    ELSE Returned(Fragment(FALSE, pageFragments(params) \o modeFragments(params)
                                  \o searchFragments(params, urlMode)))

\* ------------------------------------------------------------ start-up
\* What init() reads from its surroundings.
\*   titleLeaf     options.titleLeaf (JSUndefined when not configured)
\*   defaults      options.defaults, a fragment string (EmptyFragment when not set)
\*   resume        the resume plugin's value (JSNull when disabled or nothing stored)
\*   urlPlugin     options.enableUrlPlugin
\*   url           urlReadFragment()
\*   search        the search plugin is enabled
\*   q             the query string has a q term
\*   windowWidth   $(window).width()
\*   startFullscreen  options.startFullscreen
initParams(s, inp) ==
    LET p0 == [NoParams EXCEPT
                 !.init = TRUE,
                 !.index = IF inp.titleLeaf # JSUndefined /\ s.numLeafs > 2
                           THEN inp.titleLeaf ELSE 0]
        defaultParams == paramsFromFragment(inp.defaults)
        p1 == IF inp.defaults # EmptyFragment
              THEN extendParams(s, [p0 EXCEPT !.pageFound = defaultParams.page # NoSeg],
                                defaultParams)
              ELSE p0
        p2 == IF inp.resume # JSNull
              THEN [p1 EXCEPT !.fragmentChange = (p1.index # inp.resume),
                              !.index = inp.resume]
              ELSE p1
        urlParams == paramsFromFragment(inp.url)
        p3 == IF inp.urlPlugin /\ hasKeys(urlParams)
              THEN [extendParams(s, [p2 EXCEPT !.pageFound = @ \/ urlParams.page # NoSeg],
                                 urlParams)
                    EXCEPT !.fragmentChange = TRUE]
              ELSE p2
    IN  One({[params |-> p,
              s |-> [s EXCEPT
                       !.initialSearchTerm = inp.search /\ (p.search # NoSeg \/ inp.q),
                       !.goToFirstResult = IF inp.search THEN ~p.pageFound ELSE @,
                       !.suppressFragmentChange = ~p.fragmentChange]] : p \in {p3}})

\* _modeStringToNumber(options.defaults), JSUndefined where it throws
modeStringToNumber(fragment) ==
    IF fragment = Fragment(FALSE, <<Word("mode"), Word("1up")>>) THEN constMode1up
    ELSE IF fragment = Fragment(FALSE, <<Word("mode"), Word("2up")>>) THEN constMode2up
    ELSE IF fragment = Fragment(FALSE, <<Word("mode"), Word("thumb")>>) THEN constModeThumb
    ELSE JSUndefined

getInitialMode(s, params, windowWidth, defaults) ==
    LET isMobile == windowWidth # 0 /\ windowWidth <= onePageMinBreakpoint
        byParams == IF params.mode # JSUndefined THEN params.mode
                    ELSE IF isMobile THEN constMode1up ELSE constMode2up
        allowed == IF ~canSwitchToMode(s, byParams) THEN constMode1up ELSE byParams
    IN  IF defaults # EmptyFragment /\ modeStringToNumber(defaults) # JSUndefined
        THEN modeStringToNumber(defaults)
        ELSE allowed

updateFromParams(s0, params) ==
    One({IF s.error # "none" THEN s
         ELSE IF params.index # JSUndefined
         THEN IF ~hasActiveMode(s) THEN Throw(s, "currentIndex")
              ELSE IF params.index # currentIndex(s) THEN jumpToIndex(s, params.index)
              ELSE s
         ELSE s :
         s \in {IF params.mode # JSUndefined /\ params.mode # 0
                THEN switchMode(s0, Num(params.mode), ~params.fragmentChange)
                ELSE s0}})

\* ------------------------------------------------------------- fullscreen
Task(k, index) == [k |-> k, index |-> index]

defer(s0, k, index) == [s0 EXCEPT !.tasks = Append(@, Task(k, index))]

\* an async function that throws returns a rejected promise: its caller goes on
reject(s0) == [trigger(s0, Ev("rejected", 0)) EXCEPT !.error = "none"]

\* autofitNone: options.onePage.autofit is 'none'
resize(s0, autofitNone) ==
    One({IF ~s.initComplete THEN s
         ELSE IF s.mode = constMode1up
         THEN IF autofitNone
              THEN trigger(trigger([s EXCEPT !.displayedIndices = {}], CallDrawLeafs), EvResize)
              ELSE trigger(trigger(s, CallResizePageView(constMode1up)), EvResize)
         ELSE IF s.mode = constModeThumb
         THEN trigger(trigger(s, CallPrepare(constModeThumb)), EvResize)
         ELSE trigger(trigger(s, CallResizePageView(constMode2up)), EvResize) : s \in {s0}})

\* enterFullscreen from `this.jumpToIndex(currentIndex)` to the zero-delay timeout
enterFullscreenJump(s0, index) ==
    One({IF s.error # "none" THEN reject(s)
         ELSE defer(trigger(trigger(s, EvFragmentChange), EvFullscreenToggled),
                    "enterResize", 0) : s \in {jumpToIndex(s0, index)}})

\* updateBrClasses(): the mode class and the fullscreen classes follow the
\* fields of the viewer, which the entry records
updateBrClasses(s0) == trigger(s0, Ev("updateBrClasses", 0))

\* `this.isFullscreenActive = true` and what follows, up to the first await;
\* a switchMode that threw has rejected the call before
enterFullscreenActivate(s0, index) ==
    One({IF s0.error # "none" THEN reject(s0)
         ELSE IF s.mode = constMode1up THEN defer(s, "enterJump", index)
         ELSE enterFullscreenJump(s, index) :
         s \in {updateBrClasses([s0 EXCEPT !.isFullscreenActive = TRUE])}})

\* enterFullscreen up to its first await
enterFullscreen(s0, windowWidth) ==
    One({IF ~hasActiveMode(s) THEN reject(Throw(s, "currentIndex"))
         ELSE enterFullscreenActivate(
                  IF windowWidth <= onePageMinBreakpoint
                  THEN switchMode(s, Num(constMode1up), FALSE) ELSE s,
                  currentIndex(s)) : s \in {s0}})

\* exitFullScreen up to its first await
exitFullScreen(s0, windowWidth, canShow2up) ==
    One({IF s.error # "none" THEN reject(s)
         ELSE defer(updateBrClasses(trigger([s EXCEPT !.isFullscreenActive = FALSE],
                                            EvFullscreenToggled)),
                    "exitResize", 0) :
         s \in {IF canShow2up /\ windowWidth <= onePageMinBreakpoint
                THEN switchMode(s0, Num(constMode2up), FALSE) ELSE s0}})

\* exitFullScreen from its resize() on
exitFullScreenResize(s0, autofitNone) ==
    One({IF s.mode = constMode1up THEN defer(s, "exitFragment", 0)
         ELSE trigger(s, EvFragmentChange) : s \in {resize(s0, autofitNone)}})

\* one continuation, run by the event loop
runTask(s0, task, autofitNone) ==
    CASE task.k = "enterJump" -> enterFullscreenJump(s0, task.index)
      [] task.k = "enterResize" -> resize(s0, autofitNone)
      [] task.k = "exitResize" -> exitFullScreenResize(s0, autofitNone)
      [] task.k = "exitFragment" -> trigger(s0, EvFragmentChange)

\* -------------------------------------------------------------- event bus
\* 'BookReader:' + name
eventName(name) == [prefix |-> "BookReader:", name |-> name]

\* `props = this`: the viewer stands in for a payload that is not given
propsOrThis(props) == IF props = "undefined" THEN "this" ELSE props

\* one event dispatched on the window or on the document
Dispatch(target, type, props) ==
    [kind |-> "dispatch", on |-> target, type |-> type, props |-> props]
\* one callback invoked with the event and the payload
Invoke(callback, type, props) ==
    [kind |-> "invoke", on |-> callback, type |-> type, props |-> props]

\* $(document).on(type, callback): one more binding, whatever is bound already
on(bound, name, callback) == Append(bound, [type |-> eventName(name), callback |-> callback])

\* an off() that unbinds the oldest matching binding only
RECURSIVE offOldest(_, _, _)
offOldest(bound, name, callback) ==
    IF bound = <<>> THEN <<>>
    ELSE IF Head(bound) = [type |-> eventName(name), callback |-> callback]
    THEN Tail(bound)
    ELSE <<Head(bound)>> \o offOldest(Tail(bound), name, callback)

\* $(document).off(type, callback): every binding of the callback to the type goes
RECURSIVE off(_, _, _)
off(bound, name, callback) ==
    IF bound = <<>> THEN <<>>
    ELSE IF Head(bound) = [type |-> eventName(name), callback |-> callback]
    THEN off(Tail(bound), name, callback)
    ELSE <<Head(bound)>> \o off(Tail(bound), name, callback)

\* $(document).trigger(type, props): the callbacks bound to the type, in order of binding
RECURSIVE invokeBound(_, _, _)
invokeBound(bound, type, props) ==
    IF bound = <<>> THEN <<>>
    ELSE IF Head(bound).type = type
    THEN <<Invoke(Head(bound).callback, type, props)>> \o invokeBound(Tail(bound), type, props)
    ELSE invokeBound(Tail(bound), type, props)

\* trigger(name, props) on the bus: the window's CustomEvent, then the document's event
busTrigger(bound, name, props) ==
    <<Dispatch("window", eventName(name), propsOrThis(props)),
      Dispatch("document", eventName(name), propsOrThis(props))>>
    \o invokeBound(bound, eventName(name), propsOrThis(props))

\* ----------------------------------------------------------- query strings
\* A query string is an optional leading "?" and its "&"-separated key=value
\* parts, each as it is written in the URL.
QueryString(mark, parts) == [mark |-> mark, parts |-> parts]
Pair(k, v) == [k |-> k, v |-> v]

\* the form-urlencoded reading and writing of one key or value
formDecode(text) == IF text \in {"a+b", "a%20b"} THEN "a b" ELSE text
formEncode(text) == IF text = "a b" THEN "a+b" ELSE text

\* new URLSearchParams(currQueryString): the leading "?" is dropped, every part decoded
URLSearchParams(qs) ==
    [k \in 1..Len(qs.parts) |-> Pair(formDecode(qs.parts[k].k), formDecode(qs.parts[k].v))]

\* URLSearchParams.delete(name): every pair of that name goes
RECURSIVE paramsDelete(_, _)
paramsDelete(list, name) ==
    IF list = <<>> THEN <<>>
    ELSE IF Head(list).k = name THEN paramsDelete(Tail(list), name)
    ELSE <<Head(list)>> \o paramsDelete(Tail(list), name)

\* a set() that appends without looking for the name
paramsSetAppend(list, name, value) == Append(list, Pair(name, value))

\* URLSearchParams.set(name, value): the first pair of that name takes the value
\* and the others go; without one the pair is appended
RECURSIVE paramsSet(_, _, _)
paramsSet(list, name, value) ==
    IF list = <<>> THEN <<Pair(name, value)>>
    ELSE IF Head(list).k = name
    THEN <<Pair(name, value)>> \o paramsDelete(Tail(list), name)
    ELSE <<Head(list)>> \o paramsSet(Tail(list), name, value)

\* URLSearchParams.toString(), as the parts it writes
paramsToString(list) ==
    [k \in 1..Len(list) |-> Pair(formEncode(list[k].k), formEncode(list[k].v))]

\* a string parameter that is neither undefined nor empty
isTruthyString(seg) == seg # NoSeg /\ seg.w # ""

\* `if (params.view) newParams.set('view', params.view) else newParams.delete('view')`
queryView(params, list) ==
    IF isTruthyString(params.view) THEN paramsSet(list, "view", params.view.w)
    ELSE paramsDelete(list, "view")

\* `if (params.search && urlMode === 'history') newParams.set('q', params.search)`
querySearch(params, list, urlMode) ==
    IF isTruthyString(params.search) /\ urlMode = "history"
    THEN paramsSet(list, "q", params.search.w)
    ELSE list

queryStringFromParams(params, currQueryString, urlMode) ==
    One({QueryString(result # <<>>, result) :
         result \in {paramsToString(querySearch(params,
                                               queryView(params,
                                                         URLSearchParams(currQueryString)),
                                               urlMode))}})

\* ---------------------------------------------------------------- plugins
\* A plugin class, as far as the viewer can tell one from another: whether its
\* setup() throws and whether its init() throws. No class is registered under
\* a name whose entry of BookReader.PLUGINS is null.
PluginClass(setupThrows, initThrows) ==
    [registered |-> TRUE, setupThrows |-> setupThrows, initThrows |-> initThrows]
NoClass == [registered |-> FALSE, setupThrows |-> FALSE, initThrows |-> FALSE]

\* this.options.plugins: null, or an object whose entry for a name is the value
\* the options came with ("given") or the instance's own options object ("own")
OptionsPlugins(isNull, entry) == [isNull |-> isNull, entry |-> entry]

\* one step of the lifecycle, with init.initComplete as it is then
note(s0, step, name) ==
    One({[s EXCEPT !.lifecycle = Append(@, [step |-> step, plugin |-> name,
                                            initComplete |-> s.initComplete])] : s \in {s0}})

\* `new PluginClass(this)` for every name with a class, in the order of the names
RECURSIVE constructPlugins(_, _)
constructPlugins(classes, name) ==
    IF name > Len(classes) THEN <<>>
    ELSE IF classes[name].registered
    THEN <<[name |-> name, class |-> classes[name]]>> \o constructPlugins(classes, name + 1)
    ELSE constructPlugins(classes, name + 1)

\* the body of the try block of the setup loop: plugin.setup(...), then the write
\* of plugin.options into this.options.plugins, which throws when that is null
setupPlugin(options, plugin) ==
    IF plugin.class.setupThrows \/ options.isNull THEN options
    ELSE [options EXCEPT !.entry[plugin.name] = "own"]

\* the setup loop from the k-th instance on
RECURSIVE setupPlugins(_, _)
setupPlugins(s0, k) ==
    IF k > Len(s0.plugins) THEN s0
    ELSE setupPlugins([note(s0, "setup", s0.plugins[k].name) EXCEPT
                           !.optionsPlugins = setupPlugin(@, s0.plugins[k])],
                      k + 1)

\* setup(options), as far as the plugins go
setup(classes, options) ==
    setupPlugins([plugins |-> constructPlugins(classes, 1), optionsPlugins |-> options,
                  lifecycle |-> <<>>, initComplete |-> FALSE],
                 1)

\* the loop over the plugins that calls extendNavBar
RECURSIVE extendNavBars(_, _)
extendNavBars(s0, k) ==
    IF k > Len(s0.plugins) THEN s0
    ELSE extendNavBars(note(s0, "extendNavBar", s0.plugins[k].name), k + 1)

\* `if (this.options.showNavbar) { ... }`
initNavbar(s0, showNavbar) ==
    IF showNavbar THEN extendNavBars(note(s0, "initNavbar", 0), 1) ELSE s0

\* the loop over the plugins that calls _bindNavigationHandlers
RECURSIVE bindNavigationHandlers(_, _)
bindNavigationHandlers(s0, k) ==
    IF k > Len(s0.plugins) THEN s0
    ELSE bindNavigationHandlers(note(s0, "_bindNavigationHandlers", s0.plugins[k].name),
                                k + 1)

\* an init loop that a throwing init() ends
RECURSIVE initPluginsUntilThrow(_, _)
initPluginsUntilThrow(s0, k) ==
    IF k > Len(s0.plugins) THEN s0
    ELSE IF s0.plugins[k].class.initThrows THEN note(s0, "init", s0.plugins[k].name)
    ELSE initPluginsUntilThrow(note(s0, "init", s0.plugins[k].name), k + 1)

\* the loop over the plugins that calls init(), each call in its own try block
RECURSIVE initPlugins(_, _)
initPlugins(s0, k) ==
    IF k > Len(s0.plugins) THEN s0
    ELSE initPlugins(note(s0, "init", s0.plugins[k].name), k + 1)

\* ------------------------------------------------------------------- init
\* `if (!this.plugins.search?.options.initialSearchTerm) this.suppressFragmentChange = false`
allowFragmentChangeAlways(s0) ==
    One({[s EXCEPT !.suppressFragmentChange = FALSE] : s \in {s0}})

allowFragmentChange(s0) ==
    One({IF ~s.initialSearchTerm THEN [s EXCEPT !.suppressFragmentChange = FALSE]
         ELSE s : s \in {s0}})

\* init() after updateFromParams(params)
initFinish(s0, inp) ==
    One({IF s0.error # "none" THEN s0
         ELSE trigger(note([initPlugins(IF inp.startFullscreen
                                        THEN enterFullscreen(allowFragmentChange(s),
                                                             inp.windowWidth)
                                        ELSE allowFragmentChange(s),
                                        1)
                            EXCEPT !.initComplete = TRUE],
                           "PostInit", 0),
                      EvPostInit) : s \in {bindNavigationHandlers(s0, 1)}})

\* init() from `params.mode = this.getInitialMode(params)` on
initInMode(s0, params, initialMode, inp) ==
    One({initFinish(updateFromParams(note(initNavbar([s EXCEPT !.mode = m], inp.showNavbar),
                                          "updateFromParams", 0),
                                     [p EXCEPT !.mode = m]),
                    inp) :
         s \in {s0}, p \in {params}, m \in {initialMode}})

\* init() from `this.firstIndex = params.index ? params.index : 0` on
initFromParams(r0, inp) ==
    One({initInMode(s, r.params,
                    getInitialMode(s, r.params, inp.windowWidth, inp.defaults), inp) :
         r \in {r0},
         s \in {[r0.s EXCEPT !.firstIndex =
                    IF r0.params.index # JSUndefined /\ r0.params.index # 0
                    THEN r0.params.index ELSE 0]}})

init(s0, inp) ==
    initFromParams(initParams([s0 EXCEPT !.initComplete = FALSE, !.pageScale = s0.reduce],
                              inp),
                   inp)

\* ----------------------------------------------------------------- inputs
WindowWidths == {0, onePageMinBreakpoint, onePageMinBreakpoint + 1}

\* an index no book of the model has
BeyondBook == MaxLeafs + MaxNavLeafs

DefaultsStrings ==
    {EmptyFragment,
     Fragment(FALSE, <<Word("mode"), Word("1up")>>),
     Fragment(FALSE, <<Word("mode"), Word("2up")>>),
     Fragment(FALSE, <<Word("mode"), Word("thumb")>>),
     Fragment(FALSE, <<Word("page"), Digits(2)>>),
     Fragment(FALSE, <<Word("page"), Digits(1), Word("mode"), Word("thumb")>>)}

UrlFragments ==
    {EmptyFragment,
     Fragment(FALSE, <<Digits(1)>>),
     Fragment(TRUE, <<Digits(BeyondBook)>>),
     Fragment(TRUE, <<Word("mode"), Word("2up")>>),
     Fragment(TRUE, <<Word("page"), NPage(1), Word("mode"), Word("thumb")>>),
     Fragment(TRUE, <<Word("page"), Digits(2), Word("mode"), Word("1up")>>),
     Fragment(TRUE, <<Word("page"), Digits(1), Word("search"), Word("foo")>>)}

InitInputs(n, startFullscreen) ==
    {inp \in [titleLeaf : {JSUndefined, 1},
              defaults : DefaultsStrings,
              resume : {JSNull, 0, n - 1},
              urlPlugin : BOOLEAN,
              url : UrlFragments,
              search : BOOLEAN,
              q : BOOLEAN,
              windowWidth : WindowWidths,
              startFullscreen : {startFullscreen},
              showNavbar : {TRUE}] :
        /\ inp.q => inp.search
        /\ ~inp.urlPlugin => inp.url = Fragment(TRUE, <<Word("mode"), Word("2up")>>)}

\* the inputs of the start-up study: those of InitInputs, and defaults and URLs whose
\* page names no page of the book
StartDefaults ==
    DefaultsStrings \cup
    {Fragment(FALSE, <<Digits(2)>>),
     Fragment(FALSE, <<Word("page"), Word("cover")>>)}

StartUrls ==
    UrlFragments \cup
    {Fragment(TRUE, <<Word("page"), Word("cover")>>),
     Fragment(TRUE, <<Word("mode"), Word("1up")>>)}

StartInputs(n, startFullscreen) ==
    {inp \in [titleLeaf : {JSUndefined, 1, 2},
              defaults : StartDefaults,
              resume : {JSNull, 0, n - 1},
              urlPlugin : BOOLEAN,
              url : StartUrls,
              search : BOOLEAN,
              q : {FALSE},
              windowWidth : {onePageMinBreakpoint, onePageMinBreakpoint + 1},
              startFullscreen : {startFullscreen},
              showNavbar : {TRUE}] :
        ~inp.urlPlugin => inp.url = Fragment(TRUE, <<Word("mode"), Word("2up")>>)}

Call(op, tok, index, flag) == [op |-> op, tok |-> tok, index |-> index, flag |-> flag]

\* a function under study, what it was given and what it returned
Probe(fn, in, out) == [fn |-> fn, in |-> in, out |-> out]
NoProbe == Probe("none", <<>>, <<>>)

\* lists of reduction factors: every order of 1..MaxFactors values, sorted or not, and
\* short lists with the autofit marks
PlainFactorLists ==
    UNION {[1..k -> [reduce : 1..MaxReduce, autofit : {"none"}]] : k \in 1..MaxFactors}

AutofitFactorLists ==
    UNION {[1..k -> [reduce : 1..2, autofit : {"none", "auto", "height", "width"}]] :
           k \in 1..2}

ReduceValues == 0..(MaxReduce + 1)

Directions == {"in", "out", "auto", "height", "width", "fit"}

\* params records as the callers of fragmentFromParams build them
EncodeParams ==
    {[NoParams EXCEPT !.index = i, !.page = pg, !.mode = m, !.search = q] :
        i \in {JSUndefined, 0, 1, 5, BeyondBook},
        pg \in {NoSeg, Word("cover"), Word("a b"), Digits(2)},
        m \in {JSUndefined, constMode1up, constMode2up, constModeThumb, OtherNumber},
        q \in {NoSeg, Word(""), Word("a b")}}

UrlModes == {"hash", "history"}

\* the params of a queryStringFromParams call: a view and a search term
QueryParams ==
    {[view |-> v, search |-> q] :
        v \in {NoSeg, Word(""), Word("theater")}, q \in {NoSeg, Word(""), Word("a b")}}

\* the parts a current query string is made of
QueryPairs ==
    {Pair("view", "1"), Pair("q", "1"), Pair("q", "a%20b"), Pair("x", "a+b"),
     Pair("x", "a%20b")}

\* window.location.search: empty, "?" alone, or "?" and up to MaxPairs parts;
\* the result of an earlier call is handed back with its "?" too
QueryStrings ==
    {QueryString(mark, parts) :
        mark \in BOOLEAN,
        parts \in UNION {[1..n -> QueryPairs] : n \in 0..MaxPairs}}

\* fragment strings: those of the start-up study, every legacy form with and without
\* the "#", and strings that only begin with digits or carry coded characters
DecodeFragments ==
    StartDefaults \cup StartUrls \cup
    {Fragment(h, <<Digits(n)>>) : h \in BOOLEAN, n \in {0, 1, 42, BeyondBook}} \cup
    {Fragment(TRUE, <<Digits(1), Word("mode"), Word("2up")>>),
     Fragment(FALSE, <<NPage(1)>>),
     Fragment(FALSE, <<Word("page"), Word("a%20b")>>),
     Fragment(TRUE, <<Word("search"), Word("a+b"), Word("theme"), Word("dark")>>)}

\* the calls under study, not yet made
\* the params object extendParams merges into: what earlier extendParams calls left
ExtendTargets ==
    {NoParams,
     [NoParams EXCEPT !.index = 0, !.mode = constMode1up],
     [NoParams EXCEPT !.index = 1, !.search = Word("foo")]}

\* the object merged in: a page that names a page of the book (by number or by
\* leaf), one that names none, or no page
ExtendSources ==
    {[NoParams EXCEPT !.index = i, !.page = pg, !.mode = m, !.search = q] :
        i \in {JSUndefined, 0, 1},
        pg \in {NoSeg, Digits(MaxLeafs), Digits(42), Word("cover"), NPage(1)},
        m \in {JSUndefined, constMode2up},
        q \in {NoSeg, Word("a b")}}

PureProbes ==
    {Probe("quantizeReduce", [reduce |-> r, factors |-> f], <<>>) :
        r \in ReduceValues, f \in PlainFactorLists}
    \cup {Probe("nextReduce", [currentReduce |-> r, direction |-> d, factors |-> f], <<>>) :
            r \in ReduceValues, d \in {"in", "out"}, f \in PlainFactorLists}
    \cup {Probe("nextReduce", [currentReduce |-> r, direction |-> d, factors |-> f], <<>>) :
            r \in ReduceValues, d \in Directions, f \in AutofitFactorLists}
    \cup {Probe("fragmentFromParams", [params |-> p, urlMode |-> u], <<>>) :
            p \in EncodeParams, u \in UrlModes}
    \cup {Probe("paramsFromFragment", f, <<>>) : f \in DecodeFragments}
    \cup {Probe("extendParams", [params |-> p, newParams |-> n], <<>>) :
            p \in ExtendTargets, n \in ExtendSources}
    \cup {Probe("queryStringFromParams", [params |-> p, qs |-> qs, urlMode |-> u], <<>>) :
            p \in QueryParams, qs \in QueryStrings, u \in UrlModes}

\* ------------------------------------------------ the <ia-bookreader> shell
\* this.shortcutOrder
shortcutOrder ==
    <<"fullscreen", "volumes", "chapters", "search", "translate", "bookmarks", "downloads",
      "visualAdjustments", "share", "experiments">>

\* the providers that initializeBookSubmenus makes for a viewer with search, bookmarks
\* and multiple books enabled
Providers == {"visualAdjustments", "search", "bookmarks", "volumes"}

\* the element as its constructor leaves it: menuProviders is the set of ids that hold a
\* provider, enableFSLogoShortcut the option of the viewer that PostInit hands over
IaBookReader ==
    [brWidth |-> 0, brHeight |-> 0, fullscreen |-> FALSE, menuShortcuts |-> <<>>,
     menuProviders |-> {}, enableFSLogoShortcut |-> FALSE]

\* `this.shortcutOrder.indexOf(id)`, from 0, -1 for an id that is not listed
indexOf(order, id) ==
    IF \E k \in 1..Len(order) : order[k] = id
    THEN (CHOOSE k \in 1..Len(order) : order[k] = id /\ \A j \in 1..(k - 1) : order[j] # id) - 1
    ELSE -1

\* the sort key of _sortMenuShortcuts
shortcutRank(id) ==
    IF indexOf(shortcutOrder, id) = -1 THEN Len(shortcutOrder) ELSE indexOf(shortcutOrder, id)

\* one entry put into a list sorted by rank, behind the entries of its own rank
insertByRank(sorted, id) ==
    One({SubSeq(sorted, 1, n) \o <<id>> \o SubSeq(sorted, n + 1, Len(sorted)) :
         n \in {Cardinality({k \in 1..Len(sorted) :
                                shortcutRank(sorted[k]) <= shortcutRank(id)})}})

\* sortBy(list, rank): ascending by rank, entries of one rank in their order in the list
RECURSIVE sortBy(_)
sortBy(list) ==
    IF list = <<>> THEN <<>>
    ELSE insertByRank(sortBy(SubSeq(list, 1, Len(list) - 1)), list[Len(list)])

sortMenuShortcuts(sh) == [sh EXCEPT !.menuShortcuts = sortBy(@)]

addFullscreenShortcut(sh) ==
    sortMenuShortcuts([sh EXCEPT !.menuShortcuts = Append(@, "fullscreen")])

deleteFullscreenShortcut(sh) ==
    sortMenuShortcuts([sh EXCEPT !.menuShortcuts = SelectSeq(@, LAMBDA id : id # "fullscreen")])

addMenuShortcut(sh, menuId) ==
    IF \E k \in 1..Len(sh.menuShortcuts) : sh.menuShortcuts[k] = menuId THEN sh
    ELSE IF menuId \notin sh.menuProviders THEN sh
    ELSE sortMenuShortcuts([sh EXCEPT !.menuShortcuts = Append(@, menuId)])

\* the listener of BookReader:fullscreenToggled; isFullscreen is what the viewer's
\* isFullscreen() returns when the event is delivered
manageFullScreenBehavior(sh, isFullscreen) ==
    IF ~sh.enableFSLogoShortcut THEN sh
    ELSE IF isFullscreen THEN addFullscreenShortcut([sh EXCEPT !.fullscreen = TRUE])
    ELSE deleteFullscreenShortcut([sh EXCEPT !.fullscreen = FALSE])

\* the shell after the events of one call, delivered as they were triggered
RECURSIVE relay(_, _)
relay(sh, events) ==
    IF events = <<>> THEN sh
    ELSE relay(IF Head(events).ev = "fullscreenToggled"
               THEN manageFullScreenBehavior(sh, Head(events).fullscreen) ELSE sh,
               Tail(events))

\* handleResize({contentRect, target}): the sizes kept, and whether resize() is called
observeResize(sh, target, width, height) ==
    IF target = "mainBRContainer" THEN [sh EXCEPT !.brWidth = width, !.brHeight = height]
    ELSE sh

\* initializeBookSubmenus(): the providers, then the shortcuts of search and volumes
initializeBookSubmenus(sh) ==
    addMenuShortcut(addMenuShortcut([sh EXCEPT !.menuProviders = @ \cup Providers], "search"),
                    "volumes")

handleResize(sh, target, width, height, animating) ==
    One({[shell |-> IF sh.brWidth = 0 /\ after.brWidth # 0
                    THEN initializeBookSubmenus(after) ELSE after,
          resize |-> ~animating
                     /\ (sh.brWidth # after.brWidth \/ sh.brHeight # after.brHeight)] :
         after \in {observeResize(sh, target, width, height)}})

\* ------------------------------------------------------------------ Init
\* The viewer as setup() leaves it, for the book given
Constructed(startFullscreen) ==
    /\ phase = "constructed"
    /\ mode = JSNull
    /\ prevReadMode = JSNull
    /\ reduce = InitialReduce
    /\ pageScale = JSUndefined
    /\ firstIndex = JSNull
    /\ suppressFragmentChange = FALSE
    /\ initComplete = FALSE
    /\ isFullscreenActive = startFullscreen
    /\ displayedIndices = {}
    /\ initialSearchTerm = FALSE
    /\ goToFirstResult = JSUndefined
    /\ probe = NoProbe
    /\ registry = <<>>
    /\ plugins = <<>>
    /\ optionsPlugins = OptionsPlugins(FALSE, <<>>)
    /\ lifecycle = <<>>
    /\ listeners = <<>>
    /\ dispatched = <<>>
    /\ fullscreenCloseHandler = JSUndefined
    /\ shell = IaBookReader
    /\ tasks = <<>>
    /\ call = Call("setup", Nil, 0, FALSE)
    /\ error = "none"
    /\ log = <<>>

\* a book of 1..MaxLeafs pages, every page viewable
Init ==
    /\ numLeafs \in 1..MaxLeafs
    /\ viewable = [i \in 0..(numLeafs - 1) |-> TRUE]
    /\ \E startFullscreen \in BOOLEAN : Constructed(startFullscreen)

\* a book of 1..MaxNavLeafs pages, any of them unviewable
InitNav ==
    /\ numLeafs \in 1..MaxNavLeafs
    /\ viewable \in [0..(numLeafs - 1) -> BOOLEAN]
    /\ Constructed(FALSE)

\* a book of 1..MaxNavLeafs pages, every page viewable, started in or out of fullscreen
InitStart ==
    /\ numLeafs \in 1..MaxNavLeafs
    /\ viewable = [i \in 0..(numLeafs - 1) |-> TRUE]
    /\ \E startFullscreen \in BOOLEAN : Constructed(startFullscreen)

\* a viewer of a MaxLeafs-page book, and one call of a pure function to make
InitPure ==
    /\ numLeafs = MaxLeafs
    /\ viewable = [i \in 0..(numLeafs - 1) |-> TRUE]
    /\ phase = "constructed"
    /\ mode = JSNull
    /\ prevReadMode = JSNull
    /\ reduce = InitialReduce
    /\ pageScale = JSUndefined
    /\ firstIndex = JSNull
    /\ suppressFragmentChange = FALSE
    /\ initComplete = FALSE
    /\ isFullscreenActive = FALSE
    /\ displayedIndices = {}
    /\ initialSearchTerm = FALSE
    /\ goToFirstResult = JSUndefined
    /\ probe \in PureProbes
    /\ registry = <<>>
    /\ plugins = <<>>
    /\ optionsPlugins = OptionsPlugins(FALSE, <<>>)
    /\ lifecycle = <<>>
    /\ listeners = <<>>
    /\ dispatched = <<>>
    /\ fullscreenCloseHandler = JSUndefined
    /\ shell = IaBookReader
    /\ tasks = <<>>
    /\ call = Call("setup", Nil, 0, FALSE)
    /\ error = "none"
    /\ log = <<>>

\* ---------------------------------------------------------------- actions
\* init(), called once by the client
InitViewer ==
    /\ phase = "constructed"
    /\ \E inp \in InitInputs(numLeafs, isFullscreenActive) :
         \E s \in {init(V, inp)} :
             /\ Commit(s)
             /\ phase' = IF s.error = "none" THEN "ready" ELSE "failed"
             /\ call' = Call("init", Nil, 0, inp.startFullscreen)

\* init(), with what initParams() and getInitialMode() returned to it kept aside
StartViewer ==
    /\ phase = "constructed"
    /\ \E inp \in StartInputs(numLeafs, isFullscreenActive) :
         \E s \in {init(V, inp)}, r \in {initParams(V, inp)} :
             /\ Commit([s EXCEPT !.probe =
                           Probe("init", inp,
                                 [params |-> r.params,
                                  initialMode |-> getInitialMode(V, r.params, inp.windowWidth,
                                                                 inp.defaults)])])
             /\ phase' = IF s.error = "none" THEN "ready" ELSE "failed"
             /\ call' = Call("init", Nil, 0, inp.startFullscreen)

SwitchModeOf(tokens, options) ==
    /\ phase = "ready"
    /\ \E tok \in tokens, suppress \in options :
         /\ suppress => (tok.kind = "num" /\ resolveMode(tok) \in Modes)
         /\ \E s \in {switchMode(V, tok, suppress)} : Commit(s)
         /\ call' = Call("switchMode", tok, 0, suppress)
    /\ UNCHANGED phase

\* switchMode with anything a caller can pass
SwitchMode == SwitchModeOf(ModeTokens, BOOLEAN)

\* switchMode as the toolbar's three buttons call it: a mode and no options
SwitchModeButton == SwitchModeOf({Num(m) : m \in Modes}, {FALSE})

JumpToIndex ==
    /\ phase = "ready"
    /\ \E index \in 0..(numLeafs - 1) :
         /\ \E s \in {jumpToIndex(V, index)} : Commit(s)
         /\ call' = Call("jumpToIndex", Nil, index, FALSE)
    /\ UNCHANGED phase

\* a renderer, after a scroll, shows page index and reports it through updateFirstIndex
UpdateFirstIndex ==
    /\ phase = "ready"
    /\ \E index \in 0..(numLeafs - 1), suppress \in BOOLEAN :
         /\ \E s \in {updateFirstIndex([V EXCEPT !.displayedIndices = {index}],
                                        index, suppress)} : Commit(s)
         /\ call' = Call("updateFirstIndex", Nil, index, suppress)
    /\ UNCHANGED phase

\* next() and prev(), from the toolbar and the keyboard
NextPage ==
    /\ phase = "ready"
    /\ \E triggerStop \in BOOLEAN :
         /\ triggerStop \/ mode = constMode2up
         /\ \E s \in {next(V, triggerStop)} : Commit(s)
         /\ call' = Call("next", Nil, 0, triggerStop)
    /\ UNCHANGED phase

PrevPage ==
    /\ phase = "ready"
    /\ \E triggerStop \in BOOLEAN :
         /\ triggerStop \/ mode = constMode2up
         /\ \E s \in {prev(V, triggerStop)} : Commit(s)
         /\ call' = Call("prev", Nil, 0, triggerStop)
    /\ UNCHANGED phase

EnterFullscreen ==
    /\ phase = "ready"
    /\ Len(tasks) < MaxTasks
    /\ \E width \in WindowWidths :
         /\ \E s \in {enterFullscreen(V, width)} : Commit(s)
         /\ call' = Call("enterFullscreen", Nil, 0, width <= onePageMinBreakpoint)
    /\ UNCHANGED phase

ExitFullScreen ==
    /\ phase = "ready"
    /\ Len(tasks) < MaxTasks
    /\ \E width \in WindowWidths, canShow2up \in BOOLEAN :
         /\ \E s \in {exitFullScreen(V, width, canShow2up)} : Commit(s)
         /\ call' = Call("exitFullScreen", Nil, 0, canShow2up /\ width <= onePageMinBreakpoint)
    /\ UNCHANGED phase

\* the window's resize event
WindowResize ==
    /\ phase = "ready"
    /\ \E autofitNone \in BOOLEAN :
         /\ autofitNone => mode = constMode1up
         /\ \E s \in {resize(V, autofitNone)} : Commit(s)
         /\ call' = Call("resize", Nil, 0, autofitNone)
    /\ UNCHANGED phase

\* the event loop runs the oldest waiting continuation
RunTask ==
    /\ phase = "ready"
    /\ tasks # <<>>
    /\ \E autofitNone \in BOOLEAN :
         /\ autofitNone => (mode = constMode1up /\ Head(tasks).k \in {"enterResize", "exitResize"})
         /\ \E s \in {runTask([V EXCEPT !.tasks = Tail(tasks)], Head(tasks), autofitNone)} :
              Commit(s)
         /\ call' = Call(Head(tasks).k, Nil, Head(tasks).index, autofitNone)
    /\ UNCHANGED phase

Next ==
    \/ InitViewer
    \/ SwitchMode
    \/ EnterFullscreen
    \/ ExitFullScreen
    \/ WindowResize
    \/ RunTask

\* the mode and fullscreen machine, over books every page of which is viewable
Spec == Init /\ [][Next]_vars

NextNav ==
    \/ InitViewer
    \/ SwitchModeButton
    \/ JumpToIndex
    \/ UpdateFirstIndex
    \/ NextPage
    \/ PrevPage

\* navigation over books with unviewable runs
SpecNav == InitNav /\ [][NextNav]_vars

\* the call under study has returned out: nothing of the viewer changes
Apply(out) ==
    /\ Commit([V EXCEPT !.probe = [probe EXCEPT !.out = out]])
    /\ UNCHANGED <<phase, call>>

QuantizeReduce ==
    /\ probe.fn = "quantizeReduce"
    /\ probe.out = <<>>
    /\ Apply(<<quantizeReduce(probe.in.reduce, probe.in.factors)>>)

NextReduce ==
    /\ probe.fn = "nextReduce"
    /\ probe.out = <<>>
    /\ Apply(<<nextReduce(probe.in.currentReduce, probe.in.direction, probe.in.factors)>>)

FragmentFromParams ==
    /\ probe.fn = "fragmentFromParams"
    /\ probe.out = <<>>
    /\ Apply(<<fragmentFromParams(probe.in.params, probe.in.urlMode)>>)

\* paramsFromFragment, of a string given or of the one fragmentFromParams returned
ParamsFromFragment ==
    \/ /\ probe.fn = "paramsFromFragment"
       /\ probe.out = <<>>
       /\ Apply(<<paramsFromFragment(probe.in)>>)
    \/ /\ probe.fn = "fragmentFromParams"
       /\ Len(probe.out) = 1
       /\ ~probe.out[1].threw
       /\ Apply(Append(probe.out, paramsFromFragment(probe.out[1].value)))

\* extendParams({}, decoded), of the record paramsFromFragment returned
ExtendParams ==
    \/ /\ probe.fn = "paramsFromFragment"
       /\ Len(probe.out) = 1
       /\ Apply(Append(probe.out, extendParams(V, NoParams, probe.out[1])))
    \/ /\ probe.fn = "fragmentFromParams"
       /\ Len(probe.out) = 2
       /\ Apply(Append(probe.out, extendParams(V, NoParams, probe.out[2])))
    \/ /\ probe.fn = "extendParams"
       /\ probe.out = <<>>
       /\ Apply(<<extendParams(V, probe.in.params, probe.in.newParams)>>)

\* queryStringFromParams on the current query string, then on its own result
QueryStringFromParams ==
    /\ probe.fn = "queryStringFromParams"
    /\ Len(probe.out) < 2
    /\ Apply(Append(probe.out,
                    queryStringFromParams(probe.in.params,
                                          IF probe.out = <<>> THEN probe.in.qs
                                          ELSE probe.out[1],
                                          probe.in.urlMode)))

\* ------------------------------------------------- the event bus, alone
BusNames == {"stop", "fragmentChange"}
BusCallbacks == {"f", "g"}
\* the second argument of trigger: left out, or some object
BusProps == {"undefined", "object"}

\* the viewer's own fields, which the bus leaves alone
BusLeavesViewer ==
    UNCHANGED <<numLeafs, viewable, phase, mode, prevReadMode, reduce, pageScale, firstIndex,
                suppressFragmentChange, initComplete, isFullscreenActive, displayedIndices,
                initialSearchTerm, goToFirstResult, probe, registry, plugins,
                optionsPlugins, lifecycle, fullscreenCloseHandler, shell, tasks, error, log>>

On ==
    /\ Len(listeners) < MaxListeners
    /\ \E name \in BusNames, callback \in BusCallbacks :
         /\ listeners' = on(listeners, name, callback)
         /\ call' = Call("on", Str(name), 0, callback = "f")
    /\ dispatched' = <<>>
    /\ BusLeavesViewer

Off ==
    /\ \E name \in BusNames, callback \in BusCallbacks :
         /\ listeners' = off(listeners, name, callback)
         /\ call' = Call("off", Str(name), 0, callback = "f")
    /\ dispatched' = <<>>
    /\ BusLeavesViewer

Trigger ==
    /\ \E name \in BusNames, props \in BusProps :
         /\ dispatched' = busTrigger(listeners, name, props)
         /\ call' = Call("trigger", Str(name), 0, props # "undefined")
    /\ UNCHANGED listeners
    /\ BusLeavesViewer

InitBus ==
    /\ numLeafs = 1
    /\ viewable = [i \in 0..(numLeafs - 1) |-> TRUE]
    /\ Constructed(FALSE)

NextBus ==
    \/ On
    \/ Off
    \/ Trigger

\* on, off and trigger of one viewer, in any order
SpecBus == InitBus /\ [][NextBus]_vars

\* --------------------------------------------- the plugins of one viewer
\* BookReader.PLUGINS when the viewer is constructed: under each name a class or null
Registries == [1..MaxPlugins -> {NoClass} \cup {PluginClass(st, it) : st, it \in BOOLEAN}]

\* what init() is given: the page the URL names is in the book or beyond it,
\* the navbar is shown or not
PluginInputs ==
    {inp \in [titleLeaf : {JSUndefined},
              defaults : {EmptyFragment},
              resume : {JSNull},
              urlPlugin : {TRUE},
              url : {EmptyFragment, Fragment(TRUE, <<Digits(BeyondBook)>>)},
              search : {FALSE},
              q : {FALSE},
              windowWidth : {onePageMinBreakpoint + 1},
              startFullscreen : {FALSE},
              showNavbar : BOOLEAN] : TRUE}

\* classes are registered and no viewer is constructed yet
InitPlugins ==
    /\ numLeafs = MaxLeafs
    /\ viewable = [i \in 0..(numLeafs - 1) |-> TRUE]
    /\ phase = "registered"
    /\ mode = JSNull
    /\ prevReadMode = JSNull
    /\ reduce = InitialReduce
    /\ pageScale = JSUndefined
    /\ firstIndex = JSNull
    /\ suppressFragmentChange = FALSE
    /\ initComplete = FALSE
    /\ isFullscreenActive = FALSE
    /\ displayedIndices = {}
    /\ initialSearchTerm = FALSE
    /\ goToFirstResult = JSUndefined
    /\ probe = NoProbe
    /\ registry \in Registries
    /\ plugins = <<>>
    /\ optionsPlugins = OptionsPlugins(FALSE, <<>>)
    /\ lifecycle = <<>>
    /\ listeners = <<>>
    /\ dispatched = <<>>
    /\ fullscreenCloseHandler = JSUndefined
    /\ shell = IaBookReader
    /\ tasks = <<>>
    /\ call = Call("registerPlugin", Nil, 0, FALSE)
    /\ error = "none"
    /\ log = <<>>

\* new BookReader(overrides): overrides.plugins is an object, or null, which
\* the deep extend of the defaults copies as it is
Setup ==
    /\ phase = "registered"
    /\ \E isNull \in BOOLEAN :
         \E s \in {setup(registry,
                          OptionsPlugins(isNull, [name \in 1..MaxPlugins |-> "given"]))} :
             /\ plugins' = s.plugins
             /\ optionsPlugins' = s.optionsPlugins
             /\ lifecycle' = s.lifecycle
             /\ call' = Call("setup", Nil, 0, isNull)
    /\ phase' = "constructed"
    /\ UNCHANGED <<numLeafs, viewable, mode, prevReadMode, reduce, pageScale, firstIndex,
                   suppressFragmentChange, initComplete, isFullscreenActive, displayedIndices,
                   initialSearchTerm, goToFirstResult, probe, registry, listeners, dispatched,
                   fullscreenCloseHandler, shell, tasks, error, log>>

\* init() of a viewer with plugins
InitPlugged ==
    /\ phase = "constructed"
    /\ \E inp \in PluginInputs :
         \E s \in {init(V, inp)} :
             /\ Commit(s)
             /\ phase' = IF s.error = "none" THEN "ready" ELSE "failed"
             /\ call' = Call("init", Nil, 0, inp.showNavbar)

NextPlugins ==
    \/ Setup
    \/ InitPlugged

\* the registered plugin classes, the construction of a viewer, and its init()
SpecPlugins == InitPlugins /\ [][NextPlugins]_vars

NextPure ==
    \/ QueryStringFromParams
    \/ QuantizeReduce
    \/ NextReduce
    \/ FragmentFromParams
    \/ ParamsFromFragment
    \/ ExtendParams

\* the pure functions of the viewer, each applied to inputs drawn at the start
SpecPure == InitPure /\ [][NextPure]_vars

NextStart ==
    \/ StartViewer
    \/ RunTask

\* start-up alone: init() over its sources of parameters, and the continuations it leaves
SpecStart == InitStart /\ [][NextStart]_vars

\* ------------------------------------------------------------ properties
\* how many entries of a log carry the name ev
Count(l, ev) == Cardinality({k \in 1..Len(l) : l[k].ev = ev})

\* the arguments of the entries of a log that carry the name ev, in order
RECURSIVE ArgsOf(_, _)
ArgsOf(l, ev) ==
    IF l = <<>> THEN <<>>
    ELSE IF Head(l).ev = ev THEN <<Head(l).arg>> \o ArgsOf(Tail(l), ev)
    ELSE ArgsOf(Tail(l), ev)

\* the fields of the viewer that a call can change, but for the renderer's own
ViewerUnchanged ==
    UNCHANGED <<mode, prevReadMode, reduce, pageScale, firstIndex, suppressFragmentChange,
                initComplete, isFullscreenActive, initialSearchTerm, tasks>>

\* a switchMode call, made after init() has completed, has just returned
SwitchModeCalled == initComplete /\ call'.op = "switchMode"

\* C1: after init(), switchMode(TwoPage) or switchMode(Thumbnail) on a book of fewer
\* than 2 pages leaves mode, prevReadMode and reduce alone and emits no stop,
\* fragmentChange or PageViewSelected; on a book of 2 or more pages the call, its
\* target not the current mode, is accepted and mode becomes the target.
C1_SmallBookGuard ==
    [][(SwitchModeCalled /\ resolveMode(call'.tok) \in {constMode2up, constModeThumb}) =>
          IF numLeafs < 2
          THEN /\ UNCHANGED <<mode, prevReadMode, reduce>>
               /\ \A k \in 1..Len(log') :
                    log'[k].ev \notin {"stop", "fragmentChange", "PageViewSelected"}
          ELSE resolveMode(call'.tok) # mode => mode' = resolveMode(call'.tok)]_vars

\* C2: from init() onward, a book of fewer than 2 pages is never in TwoPage or
\* Thumbnail mode.
C2_SmallBookNeverTwoPageOrThumb ==
    (phase = "ready" /\ numLeafs < 2) => mode \notin {constMode2up, constModeThumb}

\* C3: once init() has completed, 0 <= firstIndex < numLeafs.
C3_FirstIndexInBook ==
    initComplete => firstIndex \in 0..(numLeafs - 1)

\* the jumpToIndex call just made is abandoned: its target continues an unviewable
\* run, the run's start is on display, and every page from the target on is unviewable
JumpAbandoned ==
    /\ ~viewable[call'.index]
    /\ call'.index > 0
    /\ ~viewable[call'.index - 1]
    /\ \E start \in displayedIndices :
         /\ start <= call'.index
         /\ \A j \in start..call'.index : ~viewable[j]
         /\ start > 0 => viewable[start - 1]
    /\ \A j \in call'.index..(numLeafs - 1) : ~viewable[j]

\* C4: every jump handed to the active mode's renderer comes right after a stop of
\* the same call, and a top-level jumpToIndex that is not abandoned emits one stop
\* and hands over one jump.
C4_StopBeforeJump ==
    /\ [](\A k \in 1..Len(log) :
            log[k].ev = "renderer.jumpToIndex" => (k > 1 /\ log[k - 1].ev = "stop"))
    /\ [][(call'.op = "jumpToIndex" /\ ~JumpAbandoned) =>
             (Count(log', "stop") = 1 /\ Count(log', "renderer.jumpToIndex") = 1)]_vars

C4_Witness ==
    /\ call.op = "jumpToIndex"
    /\ Names(log)[1] = EvStop
    /\ Len(log) >= 2
    /\ log[2].ev = "renderer.jumpToIndex"
    /\ log[2].arg # call.index

\* the steps of an accepted switchMode to target, made in mode old
SwitchModeSteps(old, target, suppressed) ==
    <<EvStop>>
    \o (IF old # target THEN <<CallUnprepare(old)>> ELSE <<>>)
    \o <<CallPrepare(target)>>
    \o (IF suppressed THEN <<>> ELSE <<EvFragmentChange>>)
    \o <<Ev("PageViewSelected", target)>>

\* C5: an accepted switchMode emits stop while mode is still the old one, calls
\* unprepare() on the old renderer only if the mode changes, sets mode, calls
\* prepare() on the new renderer, emits fragmentChange unless the flag or the
\* option suppresses it, and always ends with the mode's PageViewSelected.
C5_SwitchModeOrder ==
    [][(/\ SwitchModeCalled
        /\ resolveMode(call'.tok) \in Modes
        /\ resolveMode(call'.tok) # mode
        /\ canSwitchToMode(V, resolveMode(call'.tok))) =>
          /\ Names(log') = SwitchModeSteps(mode, resolveMode(call'.tok),
                                           suppressFragmentChange \/ call'.flag)
          /\ log'[1].mode = mode
          /\ \A k \in 2..Len(log') :
               log'[k].mode = IF log'[k].ev = "unprepare" THEN mode
                              ELSE resolveMode(call'.tok)
          /\ mode' = resolveMode(call'.tok)]_vars

\* C6: after init(), switchMode to the current mode changes nothing and emits
\* nothing; inside init(), switchMode to the mode already set still applies: stop,
\* prepare() of that mode, fragmentChange if allowed, PageViewSelected, and no
\* unprepare().
C6_SameModeSwitch ==
    /\ [][(SwitchModeCalled /\ resolveMode(call'.tok) = mode) =>
             (ViewerUnchanged /\ log' = <<>> /\ error' = "none")]_vars
    /\ [](call.op = "init" =>
            /\ Len(log) >= 3
            /\ Names(log)[1] = EvStop
            /\ Names(log)[2] = CallPrepare(log[1].mode)
            /\ log[2].mode = log[1].mode
            /\ \/ Names(log)[3] = Ev("PageViewSelected", log[1].mode)
               \/ /\ Names(log)[3] = EvFragmentChange
                  /\ Len(log) >= 4
                  /\ Names(log)[4] = Ev("PageViewSelected", log[1].mode)
            /\ \A k \in 1..Len(log) :
                 log[k].ev = "unprepare" =>
                    (k < Len(log) /\ log[k + 1].ev = "prepare" /\ log[k + 1].arg # log[k].arg))

C6_Witness ==
    /\ initComplete
    /\ call.op = "switchMode"
    /\ resolveMode(call.tok) = mode
    /\ canSwitchToMode(V, mode)
    /\ log = <<>>
    /\ error = "none"

\* C7: switchMode with a target that is none of 1, 2, 3, "1up", "2up", "thumb"
\* throws before any event and leaves mode, prevReadMode and reduce alone.
C7_InvalidModeThrows ==
    [][(call'.op = "switchMode" /\ resolveMode(call'.tok) \notin Modes) =>
          /\ error' # "none"
          /\ log' = <<>>
          /\ UNCHANGED <<mode, prevReadMode, reduce>>]_vars

\* C8: updateFirstIndex(x) with x the current firstIndex changes nothing and emits
\* nothing, so the second of two calls with the same x does; a call with another x
\* emits pageChanged and userAction once, and fragmentChange once unless suppressed.
C8_UpdateFirstIndexOnce ==
    [][call'.op = "updateFirstIndex" =>
          /\ call'.index = firstIndex =>
               (ViewerUnchanged /\ log' = <<>>)
          /\ (call.op = "updateFirstIndex" /\ call.index = call'.index) =>
               (ViewerUnchanged /\ log' = <<>>)
          /\ call'.index # firstIndex =>
               /\ firstIndex' = call'.index
               /\ Count(log', "pageChanged") = 1
               /\ Count(log', "userAction") = 1
               /\ Count(log', "fragmentChange") =
                    IF suppressFragmentChange \/ call'.flag THEN 0 ELSE 1
               /\ Len(log') = IF suppressFragmentChange \/ call'.flag THEN 2 ELSE 3]_vars

C8_Witness ==
    /\ call.op = "updateFirstIndex"
    /\ call.index = firstIndex
    /\ ~call.flag
    /\ initialSearchTerm
    /\ suppressFragmentChange
    /\ log = <<>>

\* the first page of the unviewable run that holds page i
RunStart(i) ==
    CHOOSE j \in 0..i : /\ \A k \in j..i : ~viewable[k]
                        /\ j > 0 => viewable[j - 1]

\* the pages after page i that are viewable
ViewableAfter(i) == {j \in (i + 1)..(numLeafs - 1) : viewable[j]}

\* the first viewable page after page i, where there is one
NextAfterRun(i) == CHOOSE j \in ViewableAfter(i) : \A k \in ViewableAfter(i) : j <= k

\* C9: jumpToIndex(i), page i unviewable and not the first of its run, asks the
\* renderer for the run's start when that start is not on display, and for the
\* next page after the run when it is; the renderer is never asked for an
\* unviewable page that is not the first of its run.
C9_UnviewableRunRedirect ==
    /\ [][(/\ call'.op = "jumpToIndex"
           /\ ~viewable[call'.index]
           /\ RunStart(call'.index) # call'.index) =>
             IF RunStart(call'.index) \notin displayedIndices
             THEN ArgsOf(log', "renderer.jumpToIndex") = <<RunStart(call'.index)>>
             ELSE ViewableAfter(call'.index) # {} =>
                    ArgsOf(log', "renderer.jumpToIndex") = <<NextAfterRun(call'.index)>>]_vars
    /\ [](\A k \in 1..Len(log) :
            (log[k].ev = "renderer.jumpToIndex" /\ log[k].arg \in 0..(numLeafs - 1)) =>
               (viewable[log[k].arg] \/ RunStart(log[k].arg) = log[k].arg))

\* a book whose pages 0 and 1 are the unviewable run, as pages 10 to 13 of the
\* example are: the second jump to page 1, made with page 0 on display, lands on 2
C9_Witness ==
    /\ numLeafs = 3
    /\ viewable = [i \in 0..2 |-> i = 2]
    /\ call.op = "jumpToIndex"
    /\ call.index = 1
    /\ ArgsOf(log, "renderer.jumpToIndex") = <<2>>
    /\ firstIndex = 2

\* C10: a jumpToIndex into an unviewable run whose start is on display, with no
\* page after the run, raises nothing, emits no stop, does not call the renderer
\* and leaves firstIndex and mode alone.
C10_JumpAbandonedSilently ==
    [][(call'.op = "jumpToIndex" /\ JumpAbandoned) =>
          /\ error' = "none"
          /\ log' = <<>>
          /\ UNCHANGED <<firstIndex, mode>>]_vars

C10_Witness ==
    /\ call.op = "jumpToIndex"
    /\ ~viewable[call.index]
    /\ RunStart(call.index) # call.index
    /\ RunStart(call.index) \in displayedIndices
    /\ ViewableAfter(call.index) = {}
    /\ log = <<>>
    /\ error = "none"

\* ------------------------------------------------- start-up parameters
\* the start-up whose parameters the state keeps: its inputs and what it resolved
Started == probe.fn = "init"

\* the index a fragment string supplies once normalised, JSUndefined if it supplies none
Supplied(fragment) == extendParams(V, NoParams, paramsFromFragment(fragment)).index

\* the base default of the start index
BaseIndex(inp) == IF inp.titleLeaf # JSUndefined /\ numLeafs > 2 THEN inp.titleLeaf ELSE 0

\* the value of the highest-priority source that supplies an index
PriorityIndex(inp) ==
    IF inp.urlPlugin /\ Supplied(inp.url) # JSUndefined THEN Supplied(inp.url)
    ELSE IF inp.resume # JSNull THEN inp.resume
    ELSE IF Supplied(inp.defaults) # JSUndefined THEN Supplied(inp.defaults)
    ELSE BaseIndex(inp)

\* C11: the index initParams resolves is the one supplied by the highest-priority
\* source that supplies one: URL fragment (URL plugin enabled), over the resume value
\* (non-null), over the static defaults string, over the base default (the title leaf
\* for a book of more than 2 pages, else 0).
C11_IndexPriority ==
    Started => probe.out.params.index = PriorityIndex(probe.in)

\* the URL, the resume value and the defaults supply three different indices and
\* the URL's is resolved
C11_Witness ==
    /\ Started
    /\ probe.in.urlPlugin
    /\ Supplied(probe.in.url) # JSUndefined
    /\ probe.in.resume # JSNull
    /\ Supplied(probe.in.defaults) # JSUndefined
    /\ Cardinality({Supplied(probe.in.url), probe.in.resume,
                    Supplied(probe.in.defaults), BaseIndex(probe.in)}) = 4
    /\ probe.out.params.index = Supplied(probe.in.url)

\* C12: when the static defaults string and the URL fragment both specify a mode,
\* the initial mode is the URL fragment's (OnePage if that mode cannot be shown for
\* the book); a defaults string that maps to no mode leaves the computed mode.
C12_InitialModeFollowsUrl ==
    (/\ Started
     /\ probe.in.urlPlugin
     /\ paramsFromFragment(probe.in.defaults).mode # JSUndefined
     /\ paramsFromFragment(probe.in.url).mode # JSUndefined)
    => probe.out.initialMode =
           IF canSwitchToMode(V, paramsFromFragment(probe.in.url).mode)
           THEN paramsFromFragment(probe.in.url).mode
           ELSE constMode1up

\* C13: when initParams resolved fragmentChange = false, neither init() nor a
\* continuation it started emits a fragmentChange event.
C13_NoFragmentChangeAtStart ==
    (Started /\ ~probe.out.params.fragmentChange) => Count(log, "fragmentChange") = 0

\* a start position designated by a fragment string: a page, or a bare index
Designates(fragment) ==
    \/ paramsFromFragment(fragment).page # NoSeg
    \/ paramsFromFragment(fragment).index # JSUndefined

\* C14: with the search plugin enabled, after initParams goToFirstResult is false
\* whenever the defaults string or the URL fragment designated a start position, and
\* true otherwise, whatever the resume value.
C14_GoToFirstResult ==
    (Started /\ probe.in.search)
    => goToFirstResult = ~(\/ Designates(probe.in.defaults)
                           \/ probe.in.urlPlugin /\ Designates(probe.in.url))

\* ------------------------------------------------------- fragment strings
\* the call under study has been made (and, for a chain, k calls have)
Applied(fn, k) == probe.fn = fn /\ Len(probe.out) >= k

\* a params record that holds only an index (not negative) and/or a mode (of the three)
OnlyIndexAndMode(p) ==
    /\ p.page = NoSeg /\ p.search = NoSeg /\ p.theme = NoSeg
    /\ p.index = JSUndefined \/ p.index >= 0
    /\ p.mode = JSUndefined \/ p.mode \in Modes
    /\ p.index # JSUndefined \/ p.mode # JSUndefined

\* {index:5, mode:TwoPage}
Index5TwoPage == [NoParams EXCEPT !.index = 5, !.mode = constMode2up]

\* C15: a params record that holds only index and/or mode, encoded by
\* fragmentFromParams, decoded by paramsFromFragment and normalised by extendParams
\* into an empty record, comes back unchanged; {index:5, mode:TwoPage} encodes to
\* "page/n5/mode/2up" and decodes to {page:"n5", mode:TwoPage}.
C15_RoundTrip ==
    /\ (Applied("fragmentFromParams", 3) /\ OnlyIndexAndMode(probe.in.params))
       => probe.out[3] = probe.in.params
    /\ (Applied("fragmentFromParams", 2) /\ probe.in.params = Index5TwoPage)
       => /\ probe.out[1] = Returned(Fragment(FALSE, <<Word("page"), NPage(5),
                                                       Word("mode"), Word("2up")>>))
          /\ probe.out[2] = [NoParams EXCEPT !.page = NPage(5), !.mode = constMode2up]

C15_Witness ==
    /\ Applied("fragmentFromParams", 3)
    /\ probe.in.params = Index5TwoPage
    /\ probe.out[3] = Index5TwoPage

\* a fragment string that is one or more digits, after a leading "#" if it has one
AllDigits(fragment) == Len(fragment.segs) = 1 /\ fragment.segs[1].kind = "digits"

\* C16: paramsFromFragment of a string of digits, with or without a leading "#",
\* returns a record whose only key is index, with the digits' value; a string that
\* is not all digits yields no index key.
C16_LegacyForm ==
    Applied("paramsFromFragment", 1)
    => IF AllDigits(probe.in)
       THEN probe.out[1] = [NoParams EXCEPT !.index = probe.in.segs[1].n]
       ELSE probe.out[1].index = JSUndefined

\* "#42" has been decoded to {index:42}
C16_Witness ==
    /\ Applied("paramsFromFragment", 1)
    /\ probe.in = Fragment(TRUE, <<Digits(42)>>)
    /\ probe.out[1] = [NoParams EXCEPT !.index = 42]

\* "key/value" when the condition holds, nothing otherwise
Part(present, key, value) == IF present THEN <<Word(key), value>> ELSE <<>>

ModeName(m) ==
    CASE m = constMode1up -> Word("1up")
      [] m = constMode2up -> Word("2up")
      [] m = constModeThumb -> Word("thumb")
      [] OTHER -> NoSeg

\* C17: fragmentFromParams returns "page/<page>" if page is set, else "page/n<index>"
\* if index is set, then "mode/<1up|2up|thumb>" if mode is set, then "search/<term>"
\* (plus-encoded) only for urlMode "hash" and a term that is present, in this order;
\* absent fields emit nothing; a mode outside the three makes the call throw.
C17_FragmentFromParams ==
    Applied("fragmentFromParams", 1)
    => probe.out[1] =
         IF probe.in.params.mode # JSUndefined /\ probe.in.params.mode \notin Modes
         THEN Threw
         ELSE Returned(Fragment(FALSE,
                  Part(probe.in.params.page # NoSeg, "page",
                       encodeURIComponent(probe.in.params.page))
                  \o Part(probe.in.params.page = NoSeg /\ probe.in.params.index # JSUndefined,
                          "page", NPage(probe.in.params.index))
                  \o Part(probe.in.params.mode # JSUndefined, "mode",
                          ModeName(probe.in.params.mode))
                  \o Part(/\ probe.in.urlMode = "hash"
                          /\ probe.in.params.search \notin {NoSeg, Word("")},
                          "search", encodeURIComponentPlus(probe.in.params.search))))

\* page, index, mode and search term all set, urlMode "hash": page, mode, search
C17_Witness ==
    /\ Applied("fragmentFromParams", 1)
    /\ probe.in.urlMode = "hash"
    /\ probe.in.params.page = Word("cover")
    /\ probe.in.params.index = 1
    /\ probe.out[1] = Returned(Fragment(FALSE, <<Word("page"), Word("cover"),
                                                 Word("mode"), Word("thumb"),
                                                 Word("search"), Word("a+b")>>))

\* ------------------------------------------------------ reduction factors
\* C18: quantizeReduce returns the reduce value of the first member of the list
\* whose distance to the input is minimal over all members (on a tie the earlier
\* wins); for the factors 1, 2, 4 and the input 3 it returns 2.
C18_QuantizeNearest ==
    Applied("quantizeReduce", 1)
    => /\ \E i \in 1..Len(probe.in.factors) :
            /\ probe.out[1] = probe.in.factors[i].reduce
            /\ \A j \in 1..Len(probe.in.factors) :
                 /\ Abs(probe.in.reduce - probe.in.factors[i].reduce)
                      <= Abs(probe.in.reduce - probe.in.factors[j].reduce)
                 /\ j < i => Abs(probe.in.reduce - probe.in.factors[i].reduce)
                               < Abs(probe.in.reduce - probe.in.factors[j].reduce)
       /\ (/\ probe.in.reduce = 3
           /\ [k \in 1..Len(probe.in.factors) |-> probe.in.factors[k].reduce] = <<1, 2, 4>>)
          => probe.out[1] = 2

\* quantizeReduce(3, [1, 2, 4]) has returned 2
C18_Witness ==
    /\ Applied("quantizeReduce", 1)
    /\ probe.in.reduce = 3
    /\ [k \in 1..Len(probe.in.factors) |-> probe.in.factors[k].reduce] = <<1, 2, 4>>
    /\ probe.out[1] = 2

\* a list of factors in ascending order of reduce
Ascending(factors) ==
    \A i, j \in 1..Len(factors) : i < j => factors[i].reduce <= factors[j].reduce

\* C19: for a list sorted ascending, nextReduce(currentReduce, "in", factors) returns
\* the factor with the greatest reduce strictly below currentReduce, and the first
\* element if no factor is strictly below.
C19_NextReduceIn ==
    (/\ Applied("nextReduce", 1)
     /\ probe.in.direction = "in"
     /\ Ascending(probe.in.factors))
    => IF \A i \in 1..Len(probe.in.factors) :
             probe.in.factors[i].reduce >= probe.in.currentReduce
       THEN probe.out[1] = probe.in.factors[1]
       ELSE /\ \E i \in 1..Len(probe.in.factors) : probe.out[1] = probe.in.factors[i]
            /\ probe.out[1].reduce < probe.in.currentReduce
            /\ \A i \in 1..Len(probe.in.factors) :
                 probe.in.factors[i].reduce < probe.in.currentReduce
                 => probe.in.factors[i].reduce <= probe.out[1].reduce

\* zooming in from 3 over 1, 2, 4 has returned the factor 2, which is not the first
C19_Witness ==
    /\ Applied("nextReduce", 1)
    /\ probe.in.direction = "in"
    /\ probe.in.currentReduce = 3
    /\ [k \in 1..Len(probe.in.factors) |-> probe.in.factors[k].reduce] = <<1, 2, 4>>
    /\ probe.out[1].reduce = 2

\* C20: for a list sorted ascending, nextReduce(currentReduce, "out", factors) returns
\* the factor with the smallest reduce strictly above currentReduce, and the last
\* element if no factor is strictly above.
C20_NextReduceOut ==
    (/\ Applied("nextReduce", 1)
     /\ probe.in.direction = "out"
     /\ Ascending(probe.in.factors))
    => IF \A i \in 1..Len(probe.in.factors) :
             probe.in.factors[i].reduce <= probe.in.currentReduce
       THEN probe.out[1] = probe.in.factors[Len(probe.in.factors)]
       ELSE /\ \E i \in 1..Len(probe.in.factors) : probe.out[1] = probe.in.factors[i]
            /\ probe.out[1].reduce > probe.in.currentReduce
            /\ \A i \in 1..Len(probe.in.factors) :
                 probe.in.factors[i].reduce > probe.in.currentReduce
                 => probe.in.factors[i].reduce >= probe.out[1].reduce

\* zooming out from 1 over 1, 2, 4 has returned the factor 2, which is not the last
C20_Witness ==
    /\ Applied("nextReduce", 1)
    /\ probe.in.direction = "out"
    /\ probe.in.currentReduce = 1
    /\ [k \in 1..Len(probe.in.factors) |-> probe.in.factors[k].reduce] = <<1, 2, 4>>
    /\ probe.out[1].reduce = 2

\* ------------------------------------------------------ modes, continued
\* C21: once init() has completed, whenever the mode is Thumbnail, reduce is the
\* reduce value of a member of reductionFactors: the member nearest to the page scale
\* restored on entering Thumbnail.
C21_ThumbnailReduceQuantized ==
    (initComplete /\ mode = constModeThumb)
    => /\ \E i \in 1..Len(reductionFactors) : reduce = reductionFactors[i].reduce
       /\ reduce = quantizeReduce(pageScale, reductionFactors)

\* Thumbnail entered by a switchMode call: the scale 8 of the start is snapped to 4
C21_Witness ==
    /\ initComplete
    /\ call.op = "switchMode"
    /\ mode = constModeThumb
    /\ pageScale = InitialReduce
    /\ reduce = 4

\* C22: after every accepted switchMode, prevReadMode is the mode that was left if
\* that is OnePage or TwoPage, and on leaving Thumbnail the last reading mode,
\* OnePage if there has been none.
C22_PrevReadModeIsReadingMode ==
    [][(SwitchModeCalled /\ error' = "none" /\ log' # <<>>) =>
          prevReadMode' = IF mode \in {constMode1up, constMode2up} THEN mode
                          ELSE IF prevReadMode \in {constMode1up, constMode2up}
                          THEN prevReadMode
                          ELSE constMode1up]_vars

\* --------------------------------------------------------- next and prev
\* the indices a next() or prev() call asked jumpToIndex for
Requested(l) == ArgsOf(l, "jumpToIndex")

\* C27: in OnePage and Thumbnail, next() asks for firstIndex + 1 only when
\* firstIndex < numLeafs - 1 and otherwise does nothing, prev() asks for
\* firstIndex - 1 only when firstIndex >= 1; in every mode prev() with firstIndex < 1
\* emits nothing and calls no renderer; no call asks for an index outside the book.
C27_NextPrevBounded ==
    [][/\ (call'.op = "next" /\ mode \in {constMode1up, constModeThumb})
          => IF firstIndex < numLeafs - 1
             THEN Requested(log') = <<firstIndex + 1>>
             ELSE log' = <<>> /\ ViewerUnchanged
       /\ (call'.op = "prev" /\ mode \in {constMode1up, constModeThumb})
          => Requested(log') = IF firstIndex >= 1 THEN <<firstIndex - 1>> ELSE <<>>
       /\ (call'.op = "prev" /\ firstIndex < 1) => (log' = <<>> /\ ViewerUnchanged)
       /\ call'.op \in {"next", "prev"}
          => \A k \in 1..Len(Requested(log')) : Requested(log')[k] \in 0..(numLeafs - 1)
      ]_vars

\* ------------------------------------------------------ fullscreen, continued
\* the log has one class update, made with the fullscreen flag at `flag`
ClassesUpdatedWith(l, flag) ==
    /\ Count(l, "updateBrClasses") = 1
    /\ \A k \in 1..Len(l) : l[k].ev = "updateBrClasses" => l[k].fullscreen = flag

\* the continuation that is to call resize() waits, and resize() has not run
ResizeDeferred(l, waiting, kinds) ==
    /\ Count(l, "resize") = 0
    /\ Len(waiting) = 1
    /\ waiting[1].k \in kinds

\* C28: enterFullscreen and exitFullScreen set isFullscreenActive and update
\* the classes within the call and leave resize() to a deferred continuation:
\* the call itself never runs resize(), and each call leads to exactly one
\* resize(), after the flag and the classes.
C28_FullscreenDefersResize ==
    [][/\ call'.op = "enterFullscreen"
          => /\ isFullscreenActive'
             /\ ClassesUpdatedWith(log', TRUE)
             /\ ResizeDeferred(log', tasks', {"enterJump", "enterResize"})
       /\ call'.op = "exitFullScreen"
          => /\ ~isFullscreenActive'
             /\ ClassesUpdatedWith(log', FALSE)
             /\ ResizeDeferred(log', tasks', {"exitResize"})
       /\ call'.op = "enterJump" => ResizeDeferred(log', tasks', {"enterResize"})
       /\ call'.op \in {"enterResize", "exitResize"}
          => (initComplete => Count(log', "resize") = 1)
      ]_vars

\* what enterFullscreen logs after its class update
AfterClassUpdate(l) ==
    SubSeq(l, (CHOOSE k \in 1..Len(l) : l[k].ev = "updateBrClasses") + 1, Len(l))

\* one jump to index, then fragmentChange, then fullscreenToggled, and no resize()
JumpThenEvents(l, index) ==
    /\ Len(l) >= 3
    /\ ArgsOf(l, "renderer.jumpToIndex") = <<index>>
    /\ \E k \in 1..(Len(l) - 2) : Names(l)[k] = CallJump(index)
    /\ Names(l)[Len(l) - 1] = EvFragmentChange
    /\ Names(l)[Len(l)] = EvFullscreenToggled
    /\ Count(l, "fullscreenToggled") = 1
    /\ Count(l, "resize") = 0

\* C29: in OnePage, enterFullscreen issues its jump to the index captured at
\* entry, fragmentChange and fullscreenToggled only once the renderer's update
\* has completed; in another mode it issues them within the call. Either
\* way the order is jump, fragmentChange, fullscreenToggled, resize.
C29_EnterFullscreenOrder ==
    [][/\ (call'.op = "enterFullscreen" /\ mode' = constMode1up)
          => /\ Count(log', "updateBrClasses") = 1
             /\ AfterClassUpdate(log') = <<>>
             /\ tasks' = <<Task("enterJump", currentIndex(V))>>
       /\ (call'.op = "enterFullscreen" /\ mode' # constMode1up)
          => /\ Count(log', "updateBrClasses") = 1
             /\ JumpThenEvents(AfterClassUpdate(log'), currentIndex(V))
             /\ tasks' = <<Task("enterResize", 0)>>
       /\ call'.op = "enterJump"
          => /\ JumpThenEvents(log', Head(tasks).index)
             /\ tasks' = <<Task("enterResize", 0)>>
       /\ (call'.op = "enterResize" /\ initComplete)
          => /\ Names(log')[Len(log')] = EvResize
             /\ Count(log', "fragmentChange") + Count(log', "fullscreenToggled")
                + Count(log', "renderer.jumpToIndex") = 0
      ]_vars

\* ------------------------------------------------------------ query strings
\* the values a list of pairs holds under a key, in order
RECURSIVE ValuesOf(_, _)
ValuesOf(list, name) ==
    IF list = <<>> THEN <<>>
    ELSE IF Head(list).k = name THEN <<Head(list).v>> \o ValuesOf(Tail(list), name)
    ELSE ValuesOf(Tail(list), name)

\* the text is what a serialization writes: a space is written "+"
Serialized(qs) ==
    \A k \in 1..Len(qs.parts) : qs.parts[k].k # "a%20b" /\ qs.parts[k].v # "a%20b"

\* what the claim says of one call's result
QueryStringAsClaimed(params, qs, urlMode, out) ==
    /\ ValuesOf(URLSearchParams(out), "view")
         = IF isTruthyString(params.view) THEN <<params.view.w>> ELSE <<>>
    /\ ValuesOf(URLSearchParams(out), "q")
         = IF urlMode = "history" /\ isTruthyString(params.search)
           THEN <<params.search.w>>
           ELSE ValuesOf(URLSearchParams(qs), "q")
    /\ ValuesOf(URLSearchParams(out), "x") = ValuesOf(URLSearchParams(qs), "x")
    /\ \A k \in 1..Len(out.parts) : out.parts[k].k \in {"view", "q", "x"}
    /\ Serialized(out)
    /\ out.mark = (out.parts # <<>>)

\* C30: queryStringFromParams returns the parameters of the current query
\* string with view set to params.view when that is truthy and removed
\* otherwise, q set to the search term exactly when urlMode is "history" and a
\* term is present, every other key kept; the result is "?" and the
\* serialization, or empty without parameters; a second application to the
\* result returns the same string.
C30_QueryStringFromParams ==
    /\ Applied("queryStringFromParams", 1)
       => QueryStringAsClaimed(probe.in.params, probe.in.qs, probe.in.urlMode, probe.out[1])
    /\ Applied("queryStringFromParams", 2) => probe.out[2] = probe.out[1]

C30_Witness ==
    /\ Applied("queryStringFromParams", 2)
    /\ probe.in.params = [view |-> Word("theater"), search |-> Word("a b")]
    /\ probe.in.urlMode = "history"
    /\ probe.in.qs = QueryString(TRUE, <<Pair("q", "1"), Pair("x", "a%20b")>>)
    /\ probe.out[1] = QueryString(TRUE, <<Pair("q", "a+b"), Pair("x", "a+b"),
                                         Pair("view", "theater")>>)
    /\ probe.out[2] = probe.out[1]

\* ---------------------------------------------------------------- event bus
\* how often the callback is bound to the name
Bindings(name, callback) ==
    Cardinality({k \in 1..Len(listeners) :
                    listeners[k] = [type |-> eventName(name), callback |-> callback]})

\* how often the last trigger invoked the callback
Invocations(callback) ==
    Cardinality({k \in 1..Len(dispatched) :
                    dispatched[k].kind = "invoke" /\ dispatched[k].on = callback})

\* the callback of an on() or off() call
CalledBack == IF call.flag THEN "f" ELSE "g"

\* C26: trigger(name) dispatches one window event and then one document event,
\* both named "BookReader:" + name, with the viewer as payload when none is
\* given; a callback bound once with on(name, cb) is invoked once by a trigger
\* of that name, never by a trigger of another name, and not at all once
\* off(name, cb) was called.
C26_EventBus ==
    /\ call.op = "trigger"
       => /\ Len(dispatched) >= 2
          /\ dispatched[1] = Dispatch("window", eventName(call.tok.s),
                                      IF call.flag THEN "object" ELSE "this")
          /\ dispatched[2] = Dispatch("document", eventName(call.tok.s),
                                      IF call.flag THEN "object" ELSE "this")
          /\ \A k \in 3..Len(dispatched) :
                /\ dispatched[k].kind = "invoke"
                /\ dispatched[k].type = eventName(call.tok.s)
                /\ dispatched[k].props = dispatched[2].props
          /\ \A callback \in BusCallbacks :
                Bindings(call.tok.s, callback) <= 1
                => Invocations(callback) = Bindings(call.tok.s, callback)
    /\ call.op = "off" => Bindings(call.tok.s, CalledBack) = 0
    /\ call.op = "on" => Bindings(call.tok.s, CalledBack) >= 1

C26_Witness ==
    /\ call = Call("trigger", Str("stop"), 0, FALSE)
    /\ Bindings("stop", "f") = 1
    /\ Bindings("fragmentChange", "g") = 1
    /\ Bindings("stop", "g") = 0
    /\ dispatched = <<Dispatch("window", eventName("stop"), "this"),
                      Dispatch("document", eventName("stop"), "this"),
                      Invoke("f", eventName("stop"), "this")>>

\* ------------------------------------------------------------------ plugins
\* how often the step was taken on the plugin of that name (0: the viewer's own step)
Steps(step, name) ==
    Cardinality({i \in 1..Len(lifecycle) :
                    lifecycle[i].step = step /\ lifecycle[i].plugin = name})

\* every step `first` of the name comes before every step `then` of the name
Before(first, firstName, then, thenName) ==
    \A i, j \in 1..Len(lifecycle) :
        (/\ lifecycle[i].step = first /\ lifecycle[i].plugin = firstName
         /\ lifecycle[j].step = then /\ lifecycle[j].plugin = thenName) => i < j

\* how many instances the viewer holds under the name
InstancesOf(name) == Cardinality({i \in 1..Len(plugins) : plugins[i].name = name})

\* the names under which a class is registered
RegisteredNames == {name \in DOMAIN registry : registry[name].registered}

\* C23: whichever setup() throws while the viewer is constructed, setup() is called
\* once on every constructed plugin, construction completes, the failing plugin
\* stays in the viewer's plugins, and for every plugin whose setup() did not
\* throw the viewer's options entry is that plugin's own options object.
C23_SetupIsolated ==
    phase # "registered"
    => \A name \in RegisteredNames :
          /\ InstancesOf(name) = 1
          /\ Steps("setup", name) = 1
          /\ ~registry[name].setupThrows
             => (~optionsPlugins.isNull /\ optionsPlugins.entry[name] = "own")

\* the init() of some plugin threw during the viewer's init()
SomeInitThrew ==
    /\ call.op = "init"
    /\ \E i \in 1..Len(plugins) :
          plugins[i].class.initThrows /\ Steps("init", plugins[i].name) >= 1

\* C24: when the init() of a plugin throws during the viewer's init(), init() is
\* still called once on every other plugin, initComplete becomes true and
\* PostInit is emitted once.
C24_InitIsolated ==
    SomeInitThrew
    => /\ \A i \in 1..Len(plugins) : Steps("init", plugins[i].name) = 1
       /\ initComplete
       /\ phase = "ready"
       /\ Count(log, "PostInit") = 1

C24_Witness ==
    /\ call.op = "init"
    /\ Len(plugins) = MaxPlugins
    /\ plugins[1].class.initThrows
    /\ ~plugins[MaxPlugins].class.initThrows
    /\ Steps("init", plugins[MaxPlugins].name) = 1
    /\ initComplete
    /\ Count(log, "PostInit") = 1

OthersOverwritten(params, newParams, merged) ==
    /\ merged.mode = IF newParams.mode # JSUndefined THEN newParams.mode ELSE params.mode
    /\ merged.search = IF newParams.search # NoSeg THEN newParams.search ELSE params.search
    /\ merged.theme = IF newParams.theme # NoSeg THEN newParams.theme ELSE params.theme

\* the index without a page: newParams's where it has one
IndexOverwritten(params, newParams) ==
    IF newParams.index # JSUndefined THEN newParams.index ELSE params.index

\* C31, as stated: when newParams has a page, the merged params hold index
\* equal to the parsed page and no page key; the other fields of newParams
\* overwrite those of params.
C31_PageBecomesIndex ==
    Applied("extendParams", 1)
    => /\ probe.out[1].page = NoSeg
       /\ probe.in.newParams.page # NoSeg
          => probe.out[1].index = parsePageString(V, probe.in.newParams.page)
       /\ OthersOverwritten(probe.in.params, probe.in.newParams, probe.out[1])

\* C31, amended: the page is always deleted; index is the parsed page when the
\* page string names a page of the book, and otherwise what it is without a
\* page (newParams's index if it has one, else params's).
C31_PageBecomesIndexIfParsed ==
    Applied("extendParams", 1)
    => /\ probe.out[1].page = NoSeg
       /\ probe.out[1].index =
             IF /\ probe.in.newParams.page # NoSeg
                /\ parsePageString(V, probe.in.newParams.page) # JSUndefined
             THEN parsePageString(V, probe.in.newParams.page)
             ELSE IndexOverwritten(probe.in.params, probe.in.newParams)
       /\ OthersOverwritten(probe.in.params, probe.in.newParams, probe.out[1])

C31_Witness ==
    /\ Applied("extendParams", 1)
    /\ probe.in.params = [NoParams EXCEPT !.index = 0, !.mode = constMode1up]
    /\ probe.in.newParams = [NoParams EXCEPT !.index = 0, !.page = Digits(MaxLeafs),
                                             !.mode = constMode2up]
    /\ probe.out[1] = [NoParams EXCEPT !.index = MaxLeafs - 1, !.mode = constMode2up]

\* ------------------------------------------------- updateFirstIndex, continued
\* C32: updateFirstIndex(index, opts) with another index than firstIndex assigns
\* firstIndex, then emits fragmentChange exactly when neither the viewer's
\* suppressFragmentChange nor opts.suppressFragmentChange is set, then
\* pageChanged, then userAction; every one of these events finds the new
\* firstIndex in the viewer.
C32_UpdateFirstIndexOrder ==
    [][(call'.op = "updateFirstIndex" /\ call'.index # firstIndex)
          => /\ firstIndex' = call'.index
             /\ Names(log') = (IF suppressFragmentChange \/ call'.flag THEN <<>>
                               ELSE <<EvFragmentChange>>)
                              \o <<EvPageChanged, EvUserAction>>
             /\ \A k \in 1..Len(log') : log'[k].firstIndex = call'.index]_vars

C32_Witness ==
    /\ call.op = "updateFirstIndex"
    /\ ~call.flag
    /\ Names(log) = <<EvFragmentChange, EvPageChanged, EvUserAction>>
    /\ call.index = numLeafs - 1
    /\ numLeafs > 1
    /\ \A k \in 1..3 : log[k].firstIndex = call.index


\* ------------------------------------- the search term and the fragment
\* init() of a viewer whose search plugin may hold an initial search term, with the
\* fragmentChange that initParams() resolved kept aside
SearchViewer ==
    /\ phase = "constructed"
    /\ \E inp \in InitInputs(numLeafs, isFullscreenActive) :
         \E s \in {init(V, inp)}, r \in {initParams(V, inp)} :
             /\ Commit([s EXCEPT !.probe =
                           Probe("init", <<>>, [fragmentChange |-> r.params.fragmentChange])])
             /\ phase' = IF s.error = "none" THEN "ready" ELSE "failed"
             /\ call' = Call("init", Nil, 0, inp.startFullscreen)

NextSearch ==
    \/ SearchViewer
    \/ UpdateFirstIndex
    \/ JumpToIndex

\* a viewer started once, then page changes in any order
SpecSearch == InitNav /\ [][NextSearch]_vars

\* the step is a call of updateFirstIndex that changes firstIndex
IndexChanges == call'.op = "updateFirstIndex" /\ call'.index # firstIndex

\* C33: with an initial search term init() leaves suppressFragmentChange as initParams
\* resolved it; the flag stays set until the first updateFirstIndex that changes firstIndex
\* without a local override, which emits no fragmentChange and clears the flag; later
\* changes that are not suppressed emit fragmentChange; calls with a local override never
\* clear the flag; without a search term the flag is false once init() completes
C33_SearchSuppression ==
    [][/\ (call'.op = "init" /\ phase' = "ready") =>
            /\ initComplete'
            /\ ~initialSearchTerm' => ~suppressFragmentChange'
            /\ initialSearchTerm' =>
                 suppressFragmentChange' = ~probe'.out.fragmentChange
       /\ (phase = "ready" /\ suppressFragmentChange /\ ~suppressFragmentChange') =>
            Count(log', "pageChanged") > 0
       /\ (phase = "ready" /\ ~suppressFragmentChange) => ~suppressFragmentChange'
       /\ (IndexChanges /\ initialSearchTerm /\ suppressFragmentChange /\ ~call'.flag) =>
            /\ ~suppressFragmentChange'
            /\ Count(log', "fragmentChange") = 0
       /\ (IndexChanges /\ ~suppressFragmentChange /\ ~call'.flag) =>
            Count(log', "fragmentChange") = 1
       /\ (call'.op = "updateFirstIndex" /\ call'.flag) =>
            suppressFragmentChange' = suppressFragmentChange]_vars

\* a changing call without override has just cleared the flag that init() had left set
C33_Witness ==
    /\ call.op = "updateFirstIndex" /\ ~call.flag
    /\ initialSearchTerm /\ ~suppressFragmentChange
    /\ ~probe.out.fragmentChange
    /\ Names(log) = <<EvPageChanged, EvUserAction>>


\* ------------------------------------------- fullscreen and the Escape key
\* at most this many continuations wait at once while fullscreen is toggled again
MaxWaiting == 2

\* the document's listeners and the viewer's _fullscreenCloseHandler
Doc(bound, handler) == [listeners |-> bound, fullscreenCloseHandler |-> handler]

\* the viewer and the document it binds its Escape handler on
Page(s, d) == [s |-> s, d |-> d]

\* $(document).on(type, callback)
bind(bound, type, callback) == Append(bound, [type |-> type, callback |-> callback])

\* $(document).off(type, callback): every binding of the callback for the type; with an
\* undefined callback every listener of the type
RECURSIVE unbind(_, _, _)
unbind(bound, type, callback) ==
    IF bound = <<>> THEN <<>>
    ELSE IF Head(bound).type = type /\ callback \in {JSUndefined, Head(bound).callback}
    THEN unbind(Tail(bound), type, callback)
    ELSE <<Head(bound)>> \o unbind(Tail(bound), type, callback)

\* the callbacks bound for a type, in order of binding
RECURSIVE handlersOf(_, _)
handlersOf(bound, type) ==
    IF bound = <<>> THEN <<>>
    ELSE IF Head(bound).type = type THEN <<Head(bound).callback>> \o handlersOf(Tail(bound), type)
    ELSE handlersOf(Tail(bound), type)

\* `(e) => { if (e.keyCode === 27) this.toggleFullscreen(); }`: a closure made by this call,
\* named by the first number that names no bound listener
newCloseHandler(bound) ==
    CHOOSE h \in 1..(Len(bound) + 1) : \A k \in 1..Len(bound) : bound[k].callback # h

bindCloseHandler(d0, bindKeyboardControls) ==
    One({IF bindKeyboardControls
         THEN Doc(bind(d0.listeners, "keyup", h), h) ELSE d0 : h \in {newCloseHandler(d0.listeners)}})

\* enterFullscreen(bindKeyboardControls): the handler is bound once currentIndex() returned
enterFullscreenBound(p0, bindKeyboardControls, windowWidth) ==
    One({Page(enterFullscreen(p.s, windowWidth),
              IF hasActiveMode(p.s) THEN bindCloseHandler(p.d, bindKeyboardControls) ELSE p.d) :
         p \in {p0}})

\* exitFullScreen(): the handler last made is unbound first
exitFullScreenUnbound(p0, windowWidth, canShow2up) ==
    One({Page(exitFullScreen(p.s, windowWidth, canShow2up),
              Doc(unbind(p.d.listeners, "keyup", p.d.fullscreenCloseHandler),
                  p.d.fullscreenCloseHandler)) : p \in {p0}})

toggleFullscreen(p0, windowWidth, canShow2up) ==
    One({IF p.s.isFullscreenActive
         THEN exitFullScreenUnbound(p, windowWidth, canShow2up)
         ELSE enterFullscreenBound(p, TRUE, windowWidth) : p \in {p0}})

\* a keyup of Escape on the document: every handler bound when it is dispatched runs
RECURSIVE keyupEscape(_, _, _, _)
keyupEscape(p0, handlers, windowWidth, canShow2up) ==
    IF handlers = <<>> THEN p0
    ELSE keyupEscape(toggleFullscreen(p0, windowWidth, canShow2up), Tail(handlers),
                     windowWidth, canShow2up)

\* a call that may change the document's listeners, and whose events reach the shell
CommitPage(p) ==
    /\ CommitFields(p.s)
    /\ listeners' = p.d.listeners
    /\ fullscreenCloseHandler' = p.d.fullscreenCloseHandler
    /\ shell' = relay(shell, p.s.log)

ThePage == Page(V, Doc(listeners, fullscreenCloseHandler))

ToggleFullscreen ==
    /\ phase = "ready"
    /\ Len(tasks) < MaxWaiting
    /\ Len(listeners) < MaxListeners
    /\ \E width \in WindowWidths, canShow2up \in BOOLEAN :
         /\ \E p \in {toggleFullscreen(ThePage, width, canShow2up)} : CommitPage(p)
         /\ call' = Call("toggleFullscreen", Nil, 0, isFullscreenActive)
    /\ UNCHANGED phase

EnterFullscreenBound ==
    /\ phase = "ready"
    /\ Len(tasks) < MaxWaiting
    /\ Len(listeners) < MaxListeners
    /\ \E width \in WindowWidths, bindKeyboardControls \in BOOLEAN :
         /\ \E p \in {enterFullscreenBound(ThePage, bindKeyboardControls, width)} : CommitPage(p)
         /\ call' = Call("enterFullscreen", Nil, 0, bindKeyboardControls)
    /\ UNCHANGED phase

ExitFullScreenUnbound ==
    /\ phase = "ready"
    /\ Len(tasks) < MaxWaiting
    /\ \E width \in WindowWidths, canShow2up \in BOOLEAN :
         /\ \E p \in {exitFullScreenUnbound(ThePage, width, canShow2up)} : CommitPage(p)
         /\ call' = Call("exitFullScreen", Nil, 0, canShow2up /\ width <= onePageMinBreakpoint)
    /\ UNCHANGED phase

\* the user releases Escape
KeyupEscape ==
    /\ phase = "ready"
    /\ handlersOf(listeners, "keyup") # <<>>
    /\ Len(tasks) + Len(listeners) <= MaxWaiting
    /\ 2 * Len(listeners) <= MaxListeners
    /\ \E width \in WindowWidths, canShow2up \in BOOLEAN :
         /\ \E p \in {keyupEscape(ThePage, handlersOf(listeners, "keyup"), width, canShow2up)} :
              CommitPage(p)
         /\ call' = Call("keyup", Nil, Len(handlersOf(listeners, "keyup")), isFullscreenActive)
    /\ UNCHANGED phase

\* switchMode with a number: one page, thumbnails, or no mode of the viewer
SwitchModeNumber ==
    SwitchModeOf({Num(constMode1up), Num(constModeThumb), Num(OtherNumber)}, {FALSE})

NextKeys ==
    \/ InitViewer
    \/ SwitchModeNumber
    \/ ToggleFullscreen
    \/ EnterFullscreenBound
    \/ ExitFullScreenUnbound
    \/ KeyupEscape
    \/ RunTask

\* a one-page book and its viewer, out of fullscreen
InitKeys ==
    /\ numLeafs = 1
    /\ viewable = [i \in 0..(numLeafs - 1) |-> TRUE]
    /\ Constructed(FALSE)

\* a viewer started out of fullscreen, then fullscreen calls and Escape in any order
SpecKeys == InitKeys /\ [][NextKeys]_vars


\* the continuations of enterFullscreen and exitFullScreen, as RunTask names them
Continuations == {"enterJump", "enterResize", "exitResize", "exitFragment"}

\* C35: every toggleFullscreen call flips isFullscreenActive within the call, and no
\* continuation changes it, so that after n calls and their continuations the flag is the
\* initial one for an even n and its negation for an odd n
C35_ToggleFlips ==
    [][/\ call'.op = "toggleFullscreen" => isFullscreenActive' = ~isFullscreenActive
       /\ call'.op \in Continuations => isFullscreenActive' = isFullscreenActive]_vars

\* the operation that emitted the events of this step had set isFullscreenActive
Entering ==
    \/ call'.op \in {"enterFullscreen", "enterJump"}
    \/ call'.op = "toggleFullscreen" /\ ~call'.flag

\* C36: when fullscreenToggled is delivered, isFullscreen() returns what the operation that
\* emits it established, also when exitFullScreen ran while enterFullscreen was waiting for
\* the one-page update
C36_ToggledMatchesState ==
    [][\A k \in 1..Len(log') :
          (log'[k].ev = "fullscreenToggled" /\ call'.op # "keyup") =>
              log'[k].fullscreen = Entering]_vars

\* C37: after exitFullScreen no Escape handler that enterFullscreen bound is left on the
\* document, and Escape outside fullscreen never changes the fullscreen state
C37_EscapeUnbound ==
    [][/\ call'.op = "exitFullScreen" => handlersOf(listeners', "keyup") = <<>>
       /\ (call'.op = "keyup" /\ ~isFullscreenActive) => ~isFullscreenActive']_vars


\* ------------------------------------------------- the shell at work
\* at most this many entries of menuShortcuts
MaxShortcuts == 3

\* the sizes a ResizeObserver entry reports
ContainerWidths == {0, 600}
ContainerHeights == {0, 400}

\* the ids addMenuShortcut is called with: two that get a provider, one that gets none
MenuIds == {"visualAdjustments", "bookmarks", "share"}

\* a viewer started on its first page, with no fragment, no resumed page and no search
ShellInputs(n) ==
    {inp \in InitInputs(n, FALSE) :
        /\ inp.titleLeaf = JSUndefined
        /\ inp.defaults = EmptyFragment
        /\ inp.resume = JSNull
        /\ ~inp.urlPlugin
        /\ ~inp.search}

\* init() of the viewer, then the shell's listener of BookReader:PostInit
PostInit ==
    /\ phase = "constructed"
    /\ \E inp \in ShellInputs(numLeafs), enableFSLogoShortcut \in BOOLEAN :
         \E s \in {init(V, inp)} :
             /\ CommitFields(s)
             /\ phase' = IF s.error = "none" THEN "ready" ELSE "failed"
             /\ shell' = IF s.error = "none"
                         THEN [shell EXCEPT !.enableFSLogoShortcut = enableFSLogoShortcut]
                         ELSE shell
             /\ call' = Call("init", Nil, 0, enableFSLogoShortcut)
    /\ UNCHANGED <<listeners, fullscreenCloseHandler>>

\* a continuation of the viewer resumes; the shell hears what it triggers
RelayTask ==
    /\ phase = "ready"
    /\ tasks # <<>>
    /\ \E autofitNone \in BOOLEAN :
         /\ autofitNone => (mode = constMode1up /\ Head(tasks).k \in {"enterResize", "exitResize"})
         /\ \E s \in {runTask([V EXCEPT !.tasks = Tail(tasks)], Head(tasks), autofitNone)} :
              /\ CommitFields(s)
              /\ shell' = relay(shell, s.log)
         /\ call' = Call(Head(tasks).k, Nil, Head(tasks).index, autofitNone)
    /\ UNCHANGED <<phase, listeners, fullscreenCloseHandler>>

\* the resize observer reports an entry; animating is this.bookreader.animating
HandleResize ==
    /\ phase = "ready"
    /\ \E target \in {"mainBRContainer", "body"}, width \in ContainerWidths,
          height \in ContainerHeights, animating \in BOOLEAN :
         \E r \in {handleResize(shell, target, width, height, animating)} :
             /\ shell' = r.shell
             /\ \E s \in {IF r.resize THEN resize(V, FALSE) ELSE V} : CommitFields(s)
             /\ call' = Call("handleResize", Str(target), 0, animating)
    /\ UNCHANGED <<phase, listeners, fullscreenCloseHandler>>

\* a call of the shell that leaves the viewer alone
ShellCall(op, tok, after) ==
    /\ phase = "ready"
    /\ Len(shell.menuShortcuts) < MaxShortcuts
    /\ shell' = after
    /\ CommitFields(V)
    /\ call' = Call(op, tok, 0, FALSE)
    /\ UNCHANGED <<phase, listeners, fullscreenCloseHandler>>

AddMenuShortcut ==
    \E menuId \in MenuIds : ShellCall("addMenuShortcut", Str(menuId), addMenuShortcut(shell, menuId))

AddFullscreenShortcut == ShellCall("addFullscreenShortcut", Nil, addFullscreenShortcut(shell))

DeleteFullscreenShortcut ==
    ShellCall("deleteFullscreenShortcut", Nil, deleteFullscreenShortcut(shell))

\* toggleFullscreen(), while the shell has room for one more shortcut
ToggleWithShell ==
    /\ Len(shell.menuShortcuts) < MaxShortcuts
    /\ ToggleFullscreen

\* enterFullscreen(), likewise
EnterWithShell ==
    /\ Len(shell.menuShortcuts) < MaxShortcuts
    /\ EnterFullscreenBound

NextShell ==
    \/ PostInit
    \/ ToggleWithShell
    \/ EnterWithShell
    \/ RelayTask
    \/ HandleResize
    \/ AddMenuShortcut
    \/ AddFullscreenShortcut
    \/ DeleteFullscreenShortcut

\* a viewer inside its shell: fullscreen toggles, resize entries and shortcut calls
SpecShell == InitKeys /\ [][NextShell]_vars


\* C34: handleResize calls the viewer's resize() only when the width or height it keeps has
\* changed, never while the book animates or is in fullscreen, and it changes the sizes it
\* keeps only for an entry whose target is the main container
C34_HandleResize ==
    [][call'.op = "handleResize" =>
          /\ Count(log', "resize") > 0 =>
               /\ shell'.brWidth # shell.brWidth \/ shell'.brHeight # shell.brHeight
               /\ ~call'.flag
               /\ ~isFullscreenActive
          /\ call'.tok # Str("mainBRContainer") =>
               (shell'.brWidth = shell.brWidth /\ shell'.brHeight = shell.brHeight)]_vars

\* the ids of menuShortcuts are all different
NoDuplicateShortcut ==
    \A j, k \in 1..Len(shell.menuShortcuts) :
        shell.menuShortcuts[j] = shell.menuShortcuts[k] => j = k

\* menuShortcuts is in the order of shortcutOrder
ShortcutsInOrder ==
    \A j, k \in 1..Len(shell.menuShortcuts) :
        j < k => shortcutRank(shell.menuShortcuts[j]) <= shortcutRank(shell.menuShortcuts[k])

HasFullscreenShortcut ==
    \E k \in 1..Len(shell.menuShortcuts) : shell.menuShortcuts[k] = "fullscreen"

\* C39: whatever fullscreenToggled events and shortcut calls the shell has seen, no two
\* entries of menuShortcuts have the same id, there is no 'fullscreen' entry while the
\* viewer is not in fullscreen, and the entries are in the order of shortcutOrder
C39_MenuShortcuts ==
    /\ NoDuplicateShortcut
    /\ HasFullscreenShortcut => isFullscreenActive
    /\ ShortcutsInOrder


\* --------------------------------------------- two viewers on one page
\* init() of another BookReader on the page: `this.init` is BookReader.prototype.init for
\* every instance, so its initComplete is the one this viewer reads; the call sets it to
\* false, and to true unless it throws on the way
OtherInit ==
    /\ \E completes \in BOOLEAN :
         /\ \E s \in {[V EXCEPT !.initComplete = completes]} : Commit(s)
         /\ call' = Call("otherInit", Nil, 0, completes)
    /\ UNCHANGED phase

\* resize() of this viewer before its own init()
ResizeBeforeInit ==
    /\ phase = "constructed"
    /\ \E s \in {resize(V, FALSE)} : Commit(s)
    /\ call' = Call("resize", Nil, 0, FALSE)
    /\ UNCHANGED phase

NextInstances ==
    \/ InitViewer
    \/ OtherInit
    \/ ResizeBeforeInit
    \/ WindowResize
    \/ SwitchModeButton

\* this viewer and the init() calls of another viewer, in any order
SpecInstances == InitKeys /\ [][NextInstances]_vars

\* C38: completion of init() is tracked per viewer: before its own init() has completed
\* resize() does nothing; after it resize() resizes, and switchMode returns at once for the
\* current mode and for a mode the book cannot show, whatever another viewer's init() did
C38_InitCompletePerViewer ==
    [][/\ (call'.op = "resize" /\ phase = "constructed") => (log' = <<>> /\ ViewerUnchanged)
       /\ (call'.op = "resize" /\ phase = "ready") => Count(log', "resize") = 1
       /\ (call'.op = "switchMode" /\ phase = "ready"
             /\ (call'.tok = Num(mode) \/ ~canSwitchToMode(V, call'.tok.n))) =>
            (log' = <<>> /\ ViewerUnchanged)]_vars


\* ------------------------------------------------ jumpToIndex, continued
\* jumpToIndex(index) takes the branch that jumps again
Redirected(index) == isConsecutiveUnviewable(V, index)

\* C40: a jumpToIndex call jumps again at most once: the index it jumps again to, the start
\* of the unviewable run or the next index after the run, is a page of the book on which
\* jumpToIndex takes the direct branch, for every layout of the book and every set of
\* displayed pages
C40_OneRedirect ==
    \A index \in 0..(numLeafs - 1) :
        (Redirected(index) /\ redirectExists(redirectIndex(V, index))) =>
            /\ InBook(V, redirectIndex(V, index))
            /\ ~Redirected(redirectIndex(V, index))

\* a jump into an unviewable run whose start is displayed has gone to the page after the run
C40_Witness ==
    /\ call.op = "jumpToIndex"
    /\ phase = "ready"
    /\ isConsecutiveUnviewable(V, call.index)
    /\ firstIndex > call.index
    /\ Count(log, "stop") = 1

====
